---- MODULE Spec2Model ----
(***************************************************************************)
(* Era-based unbonding queue simulator (src/src/App.jsx, first component). *)
(*                                                                         *)
(* State: the React state of EraBasedUnbondingSimulator.  Every handler    *)
(* runs to completion and the component re-renders before the next event,  *)
(* so each action is one handler together with the state updates it        *)
(* queues and the render that follows.                                     *)
(*                                                                         *)
(* Amounts are whole DOT.  Fractions of the source are kept as integers:   *)
(* lowestThirdRatio in thousandths (0.287 is 287), MIN_SLASHABLE_SHARE in  *)
(* hundredths (0.5 is 50).  A threshold is compared with whole amounts     *)
(* only, so its integer part decides every comparison.                     *)
(*                                                                         *)
(* The window length is 28 eras in the source; the model runs the same     *)
(* code on a shorter window (BONDING_DURATION below) so that whole window  *)
(* turnovers are explored.  The initial ledger of the source, eras 0..27   *)
(* with currentEra 27, is eras 0..BONDING_DURATION-1 here.                 *)
(*                                                                         *)
(* The other components have their own specifications over the same        *)
(* variables: the second component of src/src/App.jsx, which accumulates   *)
(* forward from the start era (SpecForward); the first component with      *)
(* handlers and renders as separate steps (SpecBatched); and the           *)
(* sequential-queue simulator of src/ImprovedUnbondingSimulator.jsx        *)
(* (SpecSequential), whose state is the last five variables and whose      *)
(* networkParams holds the day bounds and the stake estimate.              *)
(***************************************************************************)
EXTENDS Integers, Sequences, FiniteSets, TLC

VARIABLES
    networkParams,     \* BONDING_DURATION, MIN_UNBONDING_ERAS, MIN_SLASHABLE_SHARE;
                       \*   in SpecSequential the record of ImprovedUnbondingSimulator
    eraData,           \* era index -> [lowest_third_stake, total_unbond_in_era]
    currentEra,
    timeAdvanced,
    unlockChunks,      \* sequence of UnlockChunk records
    nextChunkId,
    totalStakedDOT,
    lowestThirdRatio,  \* thousandths
    updateQueue,       \* state updates queued by handlers and not yet rendered
    queueState,        \* ImprovedUnbondingSimulator: back_of_queue_block, current_block,
                       \*   pending_slashes, total_queue_stake
    unbondingRequests, \* ImprovedUnbondingSimulator: sequence of request records
    nextRequestId,     \* ImprovedUnbondingSimulator
    timeSimulation,    \* ImprovedUnbondingSimulator: days passed
    elapsedSinceAdded  \* history, not in the source: id of a request in the list ->
                       \*   the days advanced by advanceTime since it was added,
                       \*   counted up to LOWER_BOUND_DAYS

\* the state of the sequential-queue simulator (src/ImprovedUnbondingSimulator.jsx),
\* a component of its own; its parameters are held in networkParams
queueVars == <<queueState, unbondingRequests, nextRequestId, timeSimulation,
               elapsedSinceAdded>>

\* what a handler of the era-based components does not touch when it runs to
\* completion: nothing stays queued, and the other simulator is another component
outsideApp == <<updateQueue, queueState, unbondingRequests, nextRequestId,
                timeSimulation, elapsedSinceAdded>>

vars == <<networkParams, eraData, currentEra, timeAdvanced, unlockChunks,
          nextChunkId, totalStakedDOT, lowestThirdRatio, updateQueue,
          queueState, unbondingRequests, nextRequestId, timeSimulation,
          elapsedSinceAdded>>

---------------------------------------------------------------------------
(* Bounds of the model *)

\* window length in eras (28 in the source)
BONDING_DURATION == 4

\* the "+7 Eras" button, scaled with the window (7 of 28 in the source)
WEEK_ERAS == 2

\* the era is not advanced past MaxEra
MaxEra == 8

\* at most MaxChunkId requests are ever created
MaxChunkId == 2

\* at most MaxRequests requests are created in a session of SpecRequests
MaxRequests == 3

\* a session of SpecReference creates at most MaxReferenceChunkId requests and
\* does not advance the era past MaxReferenceEra
MaxReferenceChunkId == 2

MaxReferenceEra == 32

\* the window of the "Kusama" button of the second component (7 eras in the
\* source, against 28 for "Polkadot")
KUSAMA_BONDING_DURATION == 3

\* a session of SpecForward does not advance the era past MaxForwardEra
MaxForwardEra == 6

\* requests of a session of the sequential-queue simulator
MaxRequestId == 2

\* the day a session of the sequential-queue simulator advances to
MaxDays == 8

(* Program constants *)
\* networkParams of the sequential-queue simulator
LOWER_BOUND_DAYS == 2
UPPER_BOUND_DAYS == 28
KUSAMA_UPPER_BOUND_DAYS == 7
QUEUE_MIN_SLASHABLE_SHARE == 50
TOTAL_STAKE_ESTIMATE == 800000000
LOWEST_THIRD_RATIO == 287
BLOCKS_PER_DAY == 14400


\* BONDING_DURATION of the source, used unscaled by SpecReference
SOURCE_BONDING_DURATION == 28

MIN_UNBONDING_ERAS == 2

MIN_SLASHABLE_SHARE == 50

INITIAL_LOWEST_THIRD_STAKE == 229600000

DEFAULT_TOTAL_STAKED == 800000000

DEFAULT_LOWEST_THIRD_RATIO == 287

MIN_TOTAL_STAKED == 100000000

MIN_LOWEST_THIRD_RATIO == 100

MAX_LOWEST_THIRD_RATIO == 500

(* Inputs *)

\* amounts typed into "Amount to Unbond"; 0 is the rejected input
AmountInputs == {0, 1, 60000000}

\* amounts asked of rebondChunk: less than, equal to and more than a chunk
RebondInputs == {30000000, 60000000}

\* values typed into "Total Staked DOT"; 0 stands for an unparsable value
TotalStakedInputs == {0, 240000000}

\* values typed into "Lowest Third Ratio" (thousandths); 0 as above
RatioInputs == {0, 250}

\* the three era buttons
AdvanceInputs == {1, WEEK_ERAS, BONDING_DURATION}

---------------------------------------------------------------------------
(* Arithmetic helpers *)

Min(a, b) == IF a <= b THEN a ELSE b

Max(a, b) == IF a >= b THEN a ELSE b

\* integer part of ratio/1000 * total, without leaving 32 bits
stakeProduct(ratio, total) ==
    (total \div 1000) * ratio + ((total % 1000) * ratio) \div 1000

\* integer part of (1 - share/100) * stake
shareOf(share, stake) ==
    (stake \div 100) * (100 - share) + ((stake % 100) * (100 - share)) \div 100

---------------------------------------------------------------------------
(* Ledger lookups: eraData[era]?.field || 0 *)

totalUnbondOn(eras, era) ==
    IF era \in DOMAIN eras /\ "total_unbond_in_era" \in DOMAIN eras[era]
    THEN eras[era].total_unbond_in_era
    ELSE 0

lowestThirdOn(eras, era) ==
    IF era \in DOMAIN eras /\ "lowest_third_stake" \in DOMAIN eras[era]
    THEN eras[era].lowest_third_stake
    ELSE 0

\* {...rec, [field]: value}, rec possibly undefined
withField(eras, era, field, value) ==
    LET old == IF era \in DOMAIN eras THEN eras[era] ELSE <<>>
    IN  [f \in DOMAIN old \cup {field} |-> IF f = field THEN value ELSE old[f]]

\* {...prev, [era]: rec}
withEra(eras, era, rec) ==
    [x \in DOMAIN eras \cup {era} |-> IF x = era THEN rec ELSE eras[x]]

\* mutant: the factor (1 - MIN_SLASHABLE_SHARE) left out
historicalThresholdOn_wholeStake(eras, np, era) ==
    lowestThirdOn(eras, era)

\* (1 - MIN_SLASHABLE_SHARE) * lowest_third_stake[era]
historicalThresholdOn(eras, np, era) ==
    shareOf(np.MIN_SLASHABLE_SHARE, lowestThirdOn(eras, era))

---------------------------------------------------------------------------
(* The backward scan shared by canWithdraw and estimateUnbondingTime *)

\* mutant: the starting era counted in full, without the snapshot cap
startEraShare_uncapped(chunk, eras) ==
    totalUnbondOn(eras, chunk.unbonding_start_era)

\* what the chunk's starting era contributes to a window sum
startEraShare(chunk, eras) ==
    Min(totalUnbondOn(eras, chunk.unbonding_start_era),
        chunk.previous_unbonded_stake_in_era + chunk.unbonding_amount)

\* mutant: only the chunk's starting era is counted
eraShare_startEraOnly(chunk, eras, era) ==
    IF era = chunk.unbonding_start_era
    THEN startEraShare(chunk, eras)
    ELSE 0

\* what era contributes to the chunk's window sum
eraShare(chunk, eras, era) ==
    IF era = chunk.unbonding_start_era
    THEN startEraShare(chunk, eras)
    ELSE totalUnbondOn(eras, era)

RECURSIVE sumWindowFrom(_, _, _, _)
\* the inner loop: for (era = lo; era <= cur; era++) sumWindow += ...
sumWindowFrom(chunk, eras, cur, lo) ==
    IF lo > cur THEN 0
    ELSE eraShare(chunk, eras, lo) + sumWindowFrom(chunk, eras, cur, lo + 1)

\* mutant: a sum equal to the threshold fails
thresholdPasses_strict(sumWindow, historicalThreshold) ==
    sumWindow < historicalThreshold

\* the test of one lookback era
thresholdPasses(sumWindow, historicalThreshold) ==
    sumWindow <= historicalThreshold

RECURSIVE scanFrom(_, _, _, _, _, _)
\* the outer loop from k on, e lookback eras having passed so far
scanFrom(chunk, eras, cur, np, k, e) ==
    IF k > np.BONDING_DURATION THEN [failed |-> FALSE, e |-> e]
    ELSE LET lookbackEra == cur - k + 1
         IN  IF lookbackEra < chunk.unbonding_start_era
             THEN [failed |-> FALSE, e |-> e]
             ELSE IF thresholdPasses(sumWindowFrom(chunk, eras, cur, lookbackEra),
                                     historicalThresholdOn(eras, np, lookbackEra))
                  THEN scanFrom(chunk, eras, cur, np, k + 1, e + 1)
                  ELSE [failed |-> TRUE, e |-> e, era |-> lookbackEra]

backwardScan(chunk, eras, cur, np) == scanFrom(chunk, eras, cur, np, 1, 0)

\* mutant: the minimum wait one era short
minimumWaitPending_oneShort(chunk, cur, np) ==
    cur < chunk.unbonding_start_era + np.MIN_UNBONDING_ERAS - 1

\* the minimum time requirement of canWithdraw
minimumWaitPending(chunk, cur, np) ==
    cur < chunk.unbonding_start_era + np.MIN_UNBONDING_ERAS

\* mutant: the window taken one era longer
outsideWindow_oneLonger(chunk, cur, np) ==
    chunk.unbonding_start_era < cur - np.BONDING_DURATION

\* the chunk started before the era window
outsideWindow(chunk, cur, np) ==
    chunk.unbonding_start_era < cur - (np.BONDING_DURATION - 1)

canWithdrawOn(chunk, eras, cur, np) ==
    IF minimumWaitPending(chunk, cur, np)
    THEN [canWithdraw |-> FALSE, reason |-> "minimum_wait"]
    ELSE IF outsideWindow(chunk, cur, np)
    THEN [canWithdraw |-> TRUE, reason |-> "outside_window"]
    ELSE LET scan == backwardScan(chunk, eras, cur, np)
         IN  IF scan.failed
             THEN [canWithdraw |-> FALSE, reason |-> "threshold_exceeded",
                   era |-> scan.era,
                   estimatedErasRemaining |->
                       Max(Max(0, np.BONDING_DURATION - scan.e),
                           Max(np.MIN_UNBONDING_ERAS,
                               chunk.unbonding_start_era + np.MIN_UNBONDING_ERAS - cur))]
             ELSE [canWithdraw |-> TRUE, reason |-> "all_passed"]

\* mutant: the estimate without its MIN_UNBONDING_ERAS floor
estimateUnbondingTimeOn_noFloor(chunk, eras, cur, np) ==
    IF outsideWindow(chunk, cur, np)
    THEN Max(0, chunk.unbonding_start_era + np.MIN_UNBONDING_ERAS - cur)
    ELSE LET scan == backwardScan(chunk, eras, cur, np)
         IN  Max(np.BONDING_DURATION - scan.e,
                 chunk.unbonding_start_era + np.MIN_UNBONDING_ERAS - cur)

\* mutant: the window counted one era short
estimateUnbondingTimeOn_oneShort(chunk, eras, cur, np) ==
    IF outsideWindow(chunk, cur, np)
    THEN Max(0, chunk.unbonding_start_era + np.MIN_UNBONDING_ERAS - cur)
    ELSE LET scan == backwardScan(chunk, eras, cur, np)
         IN  Max(np.BONDING_DURATION - 1 - scan.e,
                 Max(np.MIN_UNBONDING_ERAS,
                     chunk.unbonding_start_era + np.MIN_UNBONDING_ERAS - cur))

estimateUnbondingTimeOn(chunk, eras, cur, np) ==
    IF outsideWindow(chunk, cur, np)
    THEN Max(0, chunk.unbonding_start_era + np.MIN_UNBONDING_ERAS - cur)
    ELSE LET scan == backwardScan(chunk, eras, cur, np)
         IN  Max(np.BONDING_DURATION - scan.e,
                 Max(np.MIN_UNBONDING_ERAS,
                     chunk.unbonding_start_era + np.MIN_UNBONDING_ERAS - cur))

canWithdraw(chunk) == canWithdrawOn(chunk, eraData, currentEra, networkParams)

estimateUnbondingTime(chunk) ==
    estimateUnbondingTimeOn(chunk, eraData, currentEra, networkParams)

getMaxUnstakeForEra(era) == historicalThresholdOn(eraData, networkParams, era)

---------------------------------------------------------------------------
(* State updates of the handlers, as functions of the state they replace *)

\* setEraData of addUnbondingRequest
addedEraData(eras, cur, amount) ==
    withEra(eras, cur,
            withField(eras, cur, "total_unbond_in_era",
                      totalUnbondOn(eras, cur) + amount))

\* mutant: the snapshot taken after the request's own amount was added
newChunk_snapshotAfter(id, amount, cur, eras) ==
    [id |-> id,
     unbonding_amount |-> amount,
     unbonding_start_era |-> cur,
     previous_unbonded_stake_in_era |-> totalUnbondOn(eras, cur) + amount,
     status |-> "pending"]

\* the chunk addUnbondingRequest builds
newChunk(id, amount, cur, eras) ==
    [id |-> id,
     unbonding_amount |-> amount,
     unbonding_start_era |-> cur,
     previous_unbonded_stake_in_era |-> totalUnbondOn(eras, cur),
     status |-> "pending"]

RECURSIVE insertNewestFirst(_, _)
insertNewestFirst(chunk, sorted) ==
    IF sorted = <<>> THEN <<chunk>>
    ELSE IF Head(sorted).id - chunk.id > 0
         THEN <<Head(sorted)>> \o insertNewestFirst(chunk, Tail(sorted))
         ELSE <<chunk>> \o sorted

RECURSIVE renderSort(_)
\* the render sorts the state array in place: unlockChunks.sort((a, b) => b.id - a.id)
renderSort(chunks) ==
    IF chunks = <<>> THEN <<>>
    ELSE insertNewestFirst(chunks[Len(chunks)], renderSort(SubSeq(chunks, 1, Len(chunks) - 1)))

\* the chunk rebondChunk acts on
rebondTarget(chunk, chunkId) ==
    chunk.id = chunkId /\ chunk.status = "pending"

\* mutant: the requested amount subtracted as it comes, with no floor
rebondedTotal_unchecked(prevTotal, rebond_amount, unbonding_amount) ==
    prevTotal - rebond_amount

\* mutant: the rebonded amount added to the era instead of taken from it
rebondedTotal_added(prevTotal, rebond_amount, unbonding_amount) ==
    Max(0, prevTotal + Min(rebond_amount, unbonding_amount))

\* mutant: the requested amount taken from the era, not what the chunk gives back
rebondedTotal_requested(prevTotal, rebond_amount, unbonding_amount) ==
    Max(0, prevTotal - rebond_amount)

\* the era total rebondChunk writes for a chunk of unbonding_amount
rebondedTotal(prevTotal, rebond_amount, unbonding_amount) ==
    Max(0, prevTotal - Min(rebond_amount, unbonding_amount))

\* the amount rebondChunk leaves in the chunk
rebondedAmount(rebond_amount, unbonding_amount) ==
    unbonding_amount - Min(rebond_amount, unbonding_amount)

\* mutant: the ledger written whatever the age of the chunk
withinWindow_always(chunk, cur, np) == TRUE

\* the era is within the last BONDING_DURATION eras
withinWindow(chunk, cur, np) ==
    chunk.unbonding_start_era >= cur - (np.BONDING_DURATION - 1)

RECURSIVE rebondedEraData_twice(_, _, _, _, _, _)
\* mutant: the setEraData update of the rebonded chunk queued twice
rebondedEraData_twice(eras, chunks, i, chunkId, rebond_amount, curnp) ==
    IF i > Len(chunks) THEN eras
    ELSE LET chunk == chunks[i]
             once  == rebondedTotal(totalUnbondOn(eras, chunk.unbonding_start_era),
                                    rebond_amount, chunk.unbonding_amount)
             next  == IF rebondTarget(chunk, chunkId)
                         /\ withinWindow(chunk, curnp[1], curnp[2])
                      THEN withEra(eras, chunk.unbonding_start_era,
                               withField(eras, chunk.unbonding_start_era,
                                   "total_unbond_in_era",
                                   rebondedTotal(once, rebond_amount,
                                                 chunk.unbonding_amount)))
                      ELSE eras
         IN  rebondedEraData_twice(next, chunks, i + 1, chunkId, rebond_amount, curnp)

RECURSIVE rebondedEraData(_, _, _, _, _, _)
\* the setEraData updates rebondChunk queues while mapping chunks[i..], applied in order
rebondedEraData(eras, chunks, i, chunkId, rebond_amount, curnp) ==
    IF i > Len(chunks) THEN eras
    ELSE LET chunk == chunks[i]
             next  == IF rebondTarget(chunk, chunkId)
                         /\ withinWindow(chunk, curnp[1], curnp[2])
                      THEN withEra(eras, chunk.unbonding_start_era,
                               withField(eras, chunk.unbonding_start_era,
                                   "total_unbond_in_era",
                                   rebondedTotal(totalUnbondOn(eras, chunk.unbonding_start_era),
                                                 rebond_amount, chunk.unbonding_amount)))
                      ELSE eras
         IN  rebondedEraData(next, chunks, i + 1, chunkId, rebond_amount, curnp)

RECURSIVE rebondedChunks_unfiltered(_, _, _)
\* mutant: prev.map(...) that keeps a chunk rebonded down to nothing
rebondedChunks_unfiltered(chunks, chunkId, rebond_amount) ==
    IF chunks = <<>> THEN <<>>
    ELSE LET chunk == Head(chunks)
             rest  == rebondedChunks_unfiltered(Tail(chunks), chunkId, rebond_amount)
         IN  IF ~rebondTarget(chunk, chunkId) THEN <<chunk>> \o rest
             ELSE <<[chunk EXCEPT !.unbonding_amount =
                         rebondedAmount(rebond_amount, chunk.unbonding_amount)]>> \o rest

RECURSIVE rebondedChunks(_, _, _)
\* prev.map(...).filter(Boolean)
rebondedChunks(chunks, chunkId, rebond_amount) ==
    IF chunks = <<>> THEN <<>>
    ELSE LET chunk == Head(chunks)
             rest  == rebondedChunks(Tail(chunks), chunkId, rebond_amount)
         IN  IF ~rebondTarget(chunk, chunkId) THEN <<chunk>> \o rest
             ELSE IF rebondedAmount(rebond_amount, chunk.unbonding_amount) <= 0 THEN rest
             ELSE <<[chunk EXCEPT !.unbonding_amount =
                         rebondedAmount(rebond_amount, chunk.unbonding_amount)]>> \o rest

\* mutant: the window floor one era too low
oldestEra_oneLower(newEra, np) == newEra - np.BONDING_DURATION

\* the oldest era advanceEras keeps
oldestEra(newEra, np) == newEra - (np.BONDING_DURATION - 1)

\* mutant: the records re-indexed with the window, each kept index taking the
\* record of the era as many places after it as the era was advanced
advancedEraData_reindexed(eras, newEra, np, ratio, total) ==
    LET newest == CHOOSE era \in DOMAIN eras : \A other \in DOMAIN eras : other <= era
        shift  == newEra - newest
    IN  [era \in oldestEra(newEra, np)..newEra |->
            IF era + shift \in DOMAIN eras
            THEN eras[era + shift]
            ELSE IF era \in DOMAIN eras
            THEN eras[era]
            ELSE [lowest_third_stake |-> stakeProduct(ratio, total),
                  total_unbond_in_era |-> 0]]

\* mutant: the window rebuilt from fresh records, the kept eras included
advancedEraData_cleared(eras, newEra, np, ratio, total) ==
    [era \in oldestEra(newEra, np)..newEra |->
        [lowest_third_stake |-> stakeProduct(ratio, total),
         total_unbond_in_era |-> 0]]

\* setEraData of advanceEras
advancedEraData(eras, newEra, np, ratio, total) ==
    [era \in oldestEra(newEra, np)..newEra |->
        IF era \in DOMAIN eras
        THEN eras[era]
        ELSE [lowest_third_stake |-> stakeProduct(ratio, total),
              total_unbond_in_era |-> 0]]

\* mutant: only the newest era of the window restaked
restakedEraData_newestOnly(eras, ratio, total) ==
    [era \in DOMAIN eras |->
        IF \A other \in DOMAIN eras : other <= era
        THEN withField(eras, era, "lowest_third_stake", stakeProduct(ratio, total))
        ELSE eras[era]]

\* the effect on [totalStakedDOT, lowestThirdRatio]
restakedEraData(eras, ratio, total) ==
    [era \in DOMAIN eras |->
        withField(eras, era, "lowest_third_stake", stakeProduct(ratio, total))]

\* onChange of "Total Staked DOT": Math.max(100_000_000, parseFloat(value) || 800_000_000)
parsedTotalStaked(input) ==
    Max(MIN_TOTAL_STAKED, IF input = 0 THEN DEFAULT_TOTAL_STAKED ELSE input)

\* onChange of "Lowest Third Ratio": Math.max(0.1, Math.min(0.5, parseFloat(value) || 0.287))
parsedLowestThirdRatio(input) ==
    Max(MIN_LOWEST_THIRD_RATIO,
        Min(MAX_LOWEST_THIRD_RATIO,
            IF input = 0 THEN DEFAULT_LOWEST_THIRD_RATIO ELSE input))

---------------------------------------------------------------------------
(* estimateNewUnbondingTime: the estimate shown for a request not yet made *)

RECURSIVE sumTotalsFrom(_, _, _)
\* for (era = lo; era <= cur; era++) sumWindow += tempEraData[era]?.total_unbond_in_era || 0
sumTotalsFrom(eras, cur, lo) ==
    IF lo > cur THEN 0
    ELSE totalUnbondOn(eras, lo) + sumTotalsFrom(eras, cur, lo + 1)

RECURSIVE newScanFrom(_, _, _, _, _)
\* the loop from k on, e lookback eras having passed so far; the result is e
newScanFrom(eras, cur, np, k, e) ==
    IF k > np.BONDING_DURATION THEN e
    ELSE LET lookbackEra == cur - k + 1
         IN  IF lookbackEra < 0 THEN e
             ELSE IF thresholdPasses(sumTotalsFrom(eras, cur, lookbackEra),
                                     historicalThresholdOn(eras, np, lookbackEra))
                  THEN newScanFrom(eras, cur, np, k + 1, e + 1)
                  ELSE e

estimateNewUnbondingTimeOn(unbond_amount, eras, cur, np) ==
    LET tempEraData == addedEraData(eras, cur, unbond_amount)
    IN  Max(np.BONDING_DURATION - newScanFrom(tempEraData, cur, np, 1, 0),
            np.MIN_UNBONDING_ERAS)

estimateNewUnbondingTime(unbond_amount) ==
    estimateNewUnbondingTimeOn(unbond_amount, eraData, currentEra, networkParams)

---------------------------------------------------------------------------
(* Initial state: the useState initialisers, then the effect run on mount *)

\* the sequential-queue simulator after construction
initialQueue ==
    /\ queueState = [back_of_queue_block |-> 0,
                     current_block |-> 0,
                     pending_slashes |-> FALSE,
                     total_queue_stake |-> 0]
    /\ unbondingRequests = <<>>
    /\ nextRequestId = 1
    /\ timeSimulation = 0
    /\ elapsedSinceAdded = <<>>

initialEraData ==
    [i \in 0..(BONDING_DURATION - 1) |->
        [lowest_third_stake |-> INITIAL_LOWEST_THIRD_STAKE,
         total_unbond_in_era |-> 0]]

Init ==
    /\ networkParams = [BONDING_DURATION |-> BONDING_DURATION,
                        MIN_UNBONDING_ERAS |-> MIN_UNBONDING_ERAS,
                        MIN_SLASHABLE_SHARE |-> MIN_SLASHABLE_SHARE]
    /\ eraData = restakedEraData(initialEraData, DEFAULT_LOWEST_THIRD_RATIO,
                                 DEFAULT_TOTAL_STAKED)
    /\ currentEra = BONDING_DURATION - 1
    /\ timeAdvanced = 0
    /\ unlockChunks = <<>>
    /\ nextChunkId = 1
    /\ totalStakedDOT = DEFAULT_TOTAL_STAKED
    /\ lowestThirdRatio = DEFAULT_LOWEST_THIRD_RATIO
    /\ updateQueue = <<>>
    /\ initialQueue

---------------------------------------------------------------------------
(* Handlers *)

\* mutant: the id counter left where it was
nextId_stuck(prev) == prev

\* setNextChunkId(prev => prev + 1)
nextId(prev) == prev + 1

\* mutant: only a negative amount is turned away
invalidAmount_negativeOnly(amount) == amount < 0

\* if (newUnbondingAmount <= 0) return;
invalidAmount(amount) == amount <= 0

addUnbondingRequest(amount) ==
    IF invalidAmount(amount)
    THEN UNCHANGED vars
    ELSE /\ eraData' = addedEraData(eraData, currentEra, amount)
         /\ unlockChunks' =
                renderSort(Append(unlockChunks,
                                  newChunk(nextChunkId, amount, currentEra, eraData)))
         /\ nextChunkId' = nextId(nextChunkId)
         /\ UNCHANGED <<networkParams, currentEra, timeAdvanced,
                        totalStakedDOT, lowestThirdRatio>>
         /\ UNCHANGED outsideApp

rebondChunk(chunkId, rebond_amount) ==
    /\ unlockChunks' = renderSort(rebondedChunks(unlockChunks, chunkId, rebond_amount))
    /\ eraData' = rebondedEraData(eraData, unlockChunks, 1, chunkId, rebond_amount,
                                  <<currentEra, networkParams>>)
    /\ UNCHANGED <<networkParams, currentEra, timeAdvanced, nextChunkId,
                   totalStakedDOT, lowestThirdRatio>>
    /\ UNCHANGED outsideApp

advanceEras(eras) ==
    /\ currentEra' = currentEra + eras
    /\ timeAdvanced' = timeAdvanced + eras
    /\ eraData' = advancedEraData(eraData, currentEra + eras, networkParams,
                                  lowestThirdRatio, totalStakedDOT)
    /\ UNCHANGED <<networkParams, unlockChunks, nextChunkId,
                   totalStakedDOT, lowestThirdRatio>>
    /\ UNCHANGED outsideApp

\* a change of the stake inputs and the effect that follows it
stakeInputsChanged(total, ratio) ==
    /\ totalStakedDOT' = total
    /\ lowestThirdRatio' = ratio
    /\ eraData' = IF total = totalStakedDOT /\ ratio = lowestThirdRatio
                  THEN eraData
                  ELSE restakedEraData(eraData, ratio, total)
    /\ UNCHANGED <<networkParams, currentEra, timeAdvanced, unlockChunks, nextChunkId>>
    /\ UNCHANGED outsideApp

setTotalStakedDOT(input) ==
    stakeInputsChanged(parsedTotalStaked(input), lowestThirdRatio)

setLowestThirdRatio(input) ==
    stakeInputsChanged(totalStakedDOT, parsedLowestThirdRatio(input))

\* requests, rebonds and era advances, at most maxId requests and up to era maxEra
requestsNext(maxId, maxEra) ==
    \/ \E amount \in AmountInputs :
           /\ amount > 0 => nextChunkId <= maxId
           /\ addUnbondingRequest(amount)
    \/ \E chunkId \in 1..maxId, rebond_amount \in RebondInputs :
           rebondChunk(chunkId, rebond_amount)
    \/ \E eras \in AdvanceInputs :
           /\ currentEra + eras <= maxEra
           /\ advanceEras(eras)

stakeNext ==
    \/ \E input \in TotalStakedInputs : setTotalStakedDOT(input)
    \/ \E input \in RatioInputs : setLowestThirdRatio(input)

Next == requestsNext(MaxChunkId, MaxEra) \/ stakeNext

Spec == Init /\ [][Next]_vars

\* the last era of a session of SpecRequests: the minimum wait of the first era's
\* requests is over
requestsMaxEra == BONDING_DURATION - 1 + MIN_UNBONDING_ERAS

\* a session of requests and rebonds under the initial stake inputs: one request
\* more than Spec, over the eras up to requestsMaxEra
SpecRequests == Init /\ [][requestsNext(MaxRequests, requestsMaxEra)]_vars

\* a press of one of the era buttons, within the eras of a session
boundedAdvance ==
    \E eras \in AdvanceInputs :
        /\ currentEra + eras <= MaxEra
        /\ advanceEras(eras)

\* the era buttons are always there and the handler has no condition: a user
\* who keeps advancing the era is weakly fair to boundedAdvance
SpecAdvancing == Init /\ [][Next]_vars /\ WF_vars(boundedAdvance)

---------------------------------------------------------------------------
(* advanceEras as a function of its argument: the handler called with any
   integer, not only from the three buttons, next to requests and rebonds *)

DirectAdvanceInputs == {-1, 0, 1}

NextDirectAdvance ==
    \/ \E amount \in AmountInputs :
           /\ amount > 0 => nextChunkId <= MaxChunkId
           /\ addUnbondingRequest(amount)
    \/ \E chunkId \in 1..MaxChunkId, rebond_amount \in RebondInputs :
           rebondChunk(chunkId, rebond_amount)
    \/ \E eras \in DirectAdvanceInputs :
           /\ currentEra + eras \in 0..requestsMaxEra
           /\ advanceEras(eras)

SpecDirectAdvance == Init /\ [][NextDirectAdvance]_vars

---------------------------------------------------------------------------
(* Handlers and renders apart.  A handler is created by a render and reads
   currentEra, eraData and nextChunkId as that render saw them; what it
   passes to setEraData, setUnlockChunks, setNextChunkId, setCurrentEra and
   setTimeAdvanced is queued, and the queue is applied, in order, by the next
   render.  When two handlers are dispatched before the component renders
   again, the second reads what the first read.  The variables are the state
   of the last render; updateQueue holds what has been queued since. *)

\* handlers dispatched between two renders
MaxQueued == 2

\* what addUnbondingRequest queues: newChunk is built from the handler's reads,
\* the amount is added by the updater prev => ... at the era the handler read
queuedAdd(amount) ==
    [kind |-> "add", amount |-> amount, era |-> currentEra,
     chunk |-> newChunk(nextChunkId, amount, currentEra, eraData)]

\* what advanceEras queues: newEra and the default stake come from the handler's reads
queuedAdvance(eras) ==
    [kind |-> "advance", eras |-> eras, newEra |-> currentEra + eras,
     np |-> networkParams, ratio |-> lowestThirdRatio, total |-> totalStakedDOT]

RECURSIVE appliedEraData(_, _)
\* the setEraData updaters of the queue, applied in order
appliedEraData(eras, queue) ==
    IF queue = <<>> THEN eras
    ELSE LET u == Head(queue)
         IN  appliedEraData(IF u.kind = "add"
                            THEN addedEraData(eras, u.era, u.amount)
                            ELSE advancedEraData(eras, u.newEra, u.np, u.ratio, u.total),
                            Tail(queue))

RECURSIVE appliedChunks(_, _)
\* the setUnlockChunks updaters of the queue: prev => [...prev, newChunk]
appliedChunks(chunks, queue) ==
    IF queue = <<>> THEN chunks
    ELSE appliedChunks(IF Head(queue).kind = "add"
                       THEN Append(chunks, Head(queue).chunk)
                       ELSE chunks,
                       Tail(queue))

RECURSIVE appliedNextChunkId(_, _)
\* the setNextChunkId updaters of the queue: prev => prev + 1
appliedNextChunkId(id, queue) ==
    IF queue = <<>> THEN id
    ELSE appliedNextChunkId(IF Head(queue).kind = "add" THEN nextId(id) ELSE id,
                            Tail(queue))

RECURSIVE appliedCurrentEra(_, _)
\* setCurrentEra(newEra): the last value set
appliedCurrentEra(era, queue) ==
    IF queue = <<>> THEN era
    ELSE appliedCurrentEra(IF Head(queue).kind = "advance" THEN Head(queue).newEra ELSE era,
                           Tail(queue))

RECURSIVE appliedTimeAdvanced(_, _)
\* the setTimeAdvanced updaters of the queue: prev => prev + eras
appliedTimeAdvanced(time, queue) ==
    IF queue = <<>> THEN time
    ELSE appliedTimeAdvanced(IF Head(queue).kind = "advance"
                             THEN time + Head(queue).eras ELSE time,
                             Tail(queue))

\* addUnbondingRequest up to its last line: nothing is applied yet
dispatchAddUnbondingRequest(amount) ==
    /\ updateQueue' = IF invalidAmount(amount) THEN updateQueue
                      ELSE Append(updateQueue, queuedAdd(amount))
    /\ UNCHANGED <<networkParams, eraData, currentEra, timeAdvanced, unlockChunks,
                   nextChunkId, totalStakedDOT, lowestThirdRatio>>
    /\ UNCHANGED queueVars

\* advanceEras up to its last line
dispatchAdvanceEras(eras) ==
    /\ updateQueue' = Append(updateQueue, queuedAdvance(eras))
    /\ UNCHANGED <<networkParams, eraData, currentEra, timeAdvanced, unlockChunks,
                   nextChunkId, totalStakedDOT, lowestThirdRatio>>
    /\ UNCHANGED queueVars

\* the render that follows: the queued updates are applied and the chunk array sorted
render ==
    /\ updateQueue # <<>>
    /\ eraData' = appliedEraData(eraData, updateQueue)
    /\ unlockChunks' = renderSort(appliedChunks(unlockChunks, updateQueue))
    /\ nextChunkId' = appliedNextChunkId(nextChunkId, updateQueue)
    /\ currentEra' = appliedCurrentEra(currentEra, updateQueue)
    /\ timeAdvanced' = appliedTimeAdvanced(timeAdvanced, updateQueue)
    /\ updateQueue' = <<>>
    /\ UNCHANGED <<networkParams, totalStakedDOT, lowestThirdRatio>>
    /\ UNCHANGED queueVars

\* the requests and the eras queued and applied so far
requestsDispatched ==
    Len(unlockChunks) + Len(SelectSeq(updateQueue, LAMBDA u : u.kind = "add"))

NextBatched ==
    \/ \E amount \in AmountInputs :
           /\ Len(updateQueue) < MaxQueued
           /\ amount > 0 => requestsDispatched < MaxRequests
           /\ dispatchAddUnbondingRequest(amount)
    \/ \E eras \in AdvanceInputs :
           /\ Len(updateQueue) < MaxQueued
           /\ appliedCurrentEra(currentEra, updateQueue) + eras <= MaxEra
           /\ currentEra + eras <= MaxEra
           /\ dispatchAdvanceEras(eras)
    \/ render

SpecBatched == Init /\ [][NextBatched]_vars

---------------------------------------------------------------------------
(* The second component of src/src/App.jsx (forward accumulation).  Its state
   has the same shape, its addUnbondingRequest, rebondChunk and stake inputs
   are the same code; canWithdraw, advanceEras and the network selector are
   its own.  networkParams.name only chooses how eras are displayed and is
   left out. *)

\* mutant: a total equal to the threshold passes
thresholdReached_strict(total_unbond, maxUnstake) ==
    total_unbond > maxUnstake

\* total_unbond >= maxUnstake
thresholdReached(total_unbond, maxUnstake) ==
    total_unbond >= maxUnstake

RECURSIVE forwardScanFrom(_, _, _, _, _, _)
\* the loop from era down to currentEra - (BONDING_DURATION - 1), total_unbond
\* being what the eras before have accumulated
forwardScanFrom(chunk, eras, cur, np, era, total_unbond) ==
    IF era < cur - (np.BONDING_DURATION - 1) THEN [failed |-> FALSE]
    ELSE LET accumulated ==
                 IF era = chunk.unbonding_start_era
                 THEN Min(totalUnbondOn(eras, era),
                          chunk.previous_unbonded_stake_in_era + chunk.unbonding_amount)
                 ELSE total_unbond + totalUnbondOn(eras, era)
         IN  IF thresholdReached(accumulated, historicalThresholdOn(eras, np, era))
             THEN [failed |-> TRUE, era |-> era]
             ELSE forwardScanFrom(chunk, eras, cur, np, era - 1, accumulated)

\* mutant: the second component deciding by the backward scan of the first
canWithdrawForwardOn_backward(chunk, eras, cur, np) ==
    canWithdrawOn(chunk, eras, cur, np)

canWithdrawForwardOn(chunk, eras, cur, np) ==
    IF cur < chunk.unbonding_start_era + np.MIN_UNBONDING_ERAS
    THEN [canWithdraw |-> FALSE, reason |-> "minimum_wait"]
    ELSE IF chunk.unbonding_start_era >= cur - (np.BONDING_DURATION - 1)
    THEN LET scan == forwardScanFrom(chunk, eras, cur, np,
                                     chunk.unbonding_start_era, 0)
         IN  IF scan.failed
             THEN [canWithdraw |-> FALSE, reason |-> "threshold_exceeded",
                   era |-> scan.era,
                   estimatedErasRemaining |->
                       Max(0, scan.era + np.BONDING_DURATION - cur)]
             ELSE [canWithdraw |-> TRUE, reason |-> "all_passed"]
    ELSE [canWithdraw |-> TRUE, reason |-> "all_passed"]

canWithdrawForward(chunk) ==
    canWithdrawForwardOn(chunk, eraData, currentEra, networkParams)

\* setEraData of the second advanceEras: newEraData[eraIndex] = prev[eraIndex - eras]
advancedEraDataForward(eras, newEra, n, np, ratio, total) ==
    [eraIndex \in (newEra - (np.BONDING_DURATION - 1))..newEra |->
        IF eraIndex - n \in DOMAIN eras
        THEN eras[eraIndex - n]
        ELSE [lowest_third_stake |-> stakeProduct(ratio, total),
              total_unbond_in_era |-> 0]]

InitForward == Init

\* the same handler as in the first component; this component's render does
\* not sort the chunk array
addUnbondingRequestForward(amount) ==
    IF invalidAmount(amount)
    THEN UNCHANGED vars
    ELSE /\ eraData' = addedEraData(eraData, currentEra, amount)
         /\ unlockChunks' =
                Append(unlockChunks, newChunk(nextChunkId, amount, currentEra, eraData))
         /\ nextChunkId' = nextId(nextChunkId)
         /\ UNCHANGED <<networkParams, currentEra, timeAdvanced,
                        totalStakedDOT, lowestThirdRatio>>
         /\ UNCHANGED outsideApp

rebondChunkForward(chunkId, rebond_amount) ==
    /\ unlockChunks' = rebondedChunks(unlockChunks, chunkId, rebond_amount)
    /\ eraData' = rebondedEraData(eraData, unlockChunks, 1, chunkId, rebond_amount,
                                  <<currentEra, networkParams>>)
    /\ UNCHANGED <<networkParams, currentEra, timeAdvanced, nextChunkId,
                   totalStakedDOT, lowestThirdRatio>>
    /\ UNCHANGED outsideApp

advanceErasForward(eras) ==
    /\ currentEra' = currentEra + eras
    /\ timeAdvanced' = timeAdvanced + eras
    /\ eraData' = advancedEraDataForward(eraData, currentEra + eras, eras, networkParams,
                                         lowestThirdRatio, totalStakedDOT)
    /\ UNCHANGED <<networkParams, unlockChunks, nextChunkId,
                   totalStakedDOT, lowestThirdRatio>>
    /\ UNCHANGED outsideApp

\* the network selector: setNetworkParams(prev => ({...prev, name, BONDING_DURATION}))
selectNetwork(bondingDuration) ==
    /\ networkParams' = [networkParams EXCEPT !.BONDING_DURATION = bondingDuration]
    /\ UNCHANGED <<eraData, currentEra, timeAdvanced, unlockChunks, nextChunkId,
                   totalStakedDOT, lowestThirdRatio>>
    /\ UNCHANGED outsideApp

NextForward ==
    \/ \E amount \in AmountInputs :
           /\ amount > 0 => nextChunkId <= MaxChunkId
           /\ addUnbondingRequestForward(amount)
    \/ \E chunkId \in 1..MaxChunkId, rebond_amount \in RebondInputs :
           rebondChunkForward(chunkId, rebond_amount)
    \/ \E eras \in AdvanceInputs :
           /\ currentEra + eras <= MaxForwardEra
           /\ advanceErasForward(eras)
    \/ stakeNext
    \/ selectNetwork(BONDING_DURATION)
    \/ selectNetwork(KUSAMA_BONDING_DURATION)

SpecForward == InitForward /\ [][NextForward]_vars

---------------------------------------------------------------------------
(* The sequential-queue simulator (src/ImprovedUnbondingSimulator.jsx).  Blocks
   are whole numbers: the amounts of the model are those for which
   amount / max_unstake * UPPER_BOUND_DAYS * BLOCKS_PER_DAY is a whole number
   of blocks under both networks, and no unbonding block falls on a day
   boundary.  unbonding_duration_days and remaining_days, which are only
   displayed, are left out of the request records, and name out of
   networkParams. *)

\* 9_225_000 adds 32_400 blocks (2.25 days) under Polkadot and 8_100 under Kusama,
\* 29_725_000 adds 104_400 blocks (7.25 days) and 26_100
QueueAmountInputs == {0, 9225000, 29725000}

\* the +1 Day and +1 Week buttons
AdvanceTimeInputs == {1, 7}

\* MIN_SLASHABLE_SHARE * (LOWEST_THIRD_RATIO * TOTAL_STAKE_ESTIMATE)
max_unstake(np) ==
    LET lowestThird == stakeProduct(np.LOWEST_THIRD_RATIO, np.TOTAL_STAKE_ESTIMATE)
    IN  (lowestThird \div 100) * np.MIN_SLASHABLE_SHARE
            + ((lowestThird % 100) * np.MIN_SLASHABLE_SHARE) \div 100

RECURSIVE commonDivisor(_, _)
\* arithmetic of the model: the greatest common divisor
commonDivisor(a, b) == IF b = 0 THEN a ELSE commonDivisor(b, a % b)

\* (amount / max_unstake) * (UPPER_BOUND_DAYS * BLOCKS_PER_DAY), the fraction
\* taken in lowest terms so that the product stays within TLC's integers
timeDeltaBlocks(amount, np) ==
    LET g == commonDivisor(amount, max_unstake(np))
    IN  ((amount \div g) * (np.UPPER_BOUND_DAYS * np.BLOCKS_PER_DAY))
            \div (max_unstake(np) \div g)

calculateUnbondingRequest(amount, currentQueueBlock, currentBlock, np) ==
    LET unbonding_time_delta_blocks == timeDeltaBlocks(amount, np)
        new_back_of_queue ==
            Max(currentBlock, currentQueueBlock) + unbonding_time_delta_blocks
        unbonding_duration_blocks ==
            Min(np.UPPER_BOUND_DAYS * np.BLOCKS_PER_DAY,
                Max(new_back_of_queue - currentBlock,
                    np.LOWER_BOUND_DAYS * np.BLOCKS_PER_DAY))
    IN  [unbonding_time_delta_blocks |-> unbonding_time_delta_blocks,
         new_back_of_queue |-> new_back_of_queue,
         unbonding_block |-> currentBlock + unbonding_duration_blocks]

\* the request addUnbondingRequest builds
newRequest(id, amount, qs, np) ==
    LET calculation ==
            calculateUnbondingRequest(amount, qs.back_of_queue_block, qs.current_block, np)
    IN  [id |-> id,
         amount |-> amount,
         request_block |-> qs.current_block,
         unbonding_block |-> calculation.unbonding_block,
         unbonding_time_delta_blocks |-> calculation.unbonding_time_delta_blocks,
         status |-> "pending",
         can_rebond |-> TRUE]

\* status: days_remaining <= 0 ? 'completed' : 'pending', with
\* days_remaining = max(0, (unbonding_block - block) / BLOCKS_PER_DAY)
statusAt(request, block) ==
    IF request.unbonding_block - block <= 0 THEN "completed" ELSE "pending"

\* the map of advanceTime: every request
restatedRequests(requests, block) ==
    [i \in 1..Len(requests) |->
        [requests[i] EXCEPT !.status = statusAt(requests[i], block)]]

\* the map of recalculateQueue: the pending requests only
recalculatedRequests(requests, block) ==
    [i \in 1..Len(requests) |->
        IF requests[i].status # "pending" THEN requests[i]
        ELSE [requests[i] EXCEPT !.status = statusAt(requests[i], block)]]

\* prev.filter(r => r.id !== requestId)
withoutRequest(requests, requestId) ==
    SelectSeq(requests, LAMBDA r : r.id # requestId)

\* the state of the era-based component, which the simulator does not touch
eraBasedState == <<eraData, currentEra, timeAdvanced, unlockChunks, nextChunkId,
                   totalStakedDOT, lowestThirdRatio, updateQueue>>

InitSequential ==
    /\ networkParams = [LOWER_BOUND_DAYS |-> LOWER_BOUND_DAYS,
                        UPPER_BOUND_DAYS |-> UPPER_BOUND_DAYS,
                        MIN_SLASHABLE_SHARE |-> QUEUE_MIN_SLASHABLE_SHARE,
                        TOTAL_STAKE_ESTIMATE |-> TOTAL_STAKE_ESTIMATE,
                        LOWEST_THIRD_RATIO |-> LOWEST_THIRD_RATIO,
                        BLOCKS_PER_DAY |-> BLOCKS_PER_DAY]
    /\ initialQueue
    /\ eraData = restakedEraData(initialEraData, DEFAULT_LOWEST_THIRD_RATIO,
                                 DEFAULT_TOTAL_STAKED)
    /\ currentEra = BONDING_DURATION - 1
    /\ timeAdvanced = 0
    /\ unlockChunks = <<>>
    /\ nextChunkId = 1
    /\ totalStakedDOT = DEFAULT_TOTAL_STAKED
    /\ lowestThirdRatio = DEFAULT_LOWEST_THIRD_RATIO
    /\ updateQueue = <<>>

addUnbondingRequestSequential(amount) ==
    IF amount <= 0
    THEN UNCHANGED vars
    ELSE LET request == newRequest(nextRequestId, amount, queueState, networkParams)
             calculation ==
                 calculateUnbondingRequest(amount, queueState.back_of_queue_block,
                                           queueState.current_block, networkParams)
         IN  /\ unbondingRequests' = Append(unbondingRequests, request)
             /\ queueState' =
                    [queueState EXCEPT
                        !.back_of_queue_block = calculation.new_back_of_queue,
                        !.total_queue_stake = queueState.total_queue_stake + amount]
             /\ nextRequestId' = nextRequestId + 1
             /\ elapsedSinceAdded' =
                    [id \in DOMAIN elapsedSinceAdded \cup {nextRequestId} |->
                        IF id = nextRequestId THEN 0 ELSE elapsedSinceAdded[id]]
             /\ UNCHANGED <<networkParams, timeSimulation>>
             /\ UNCHANGED eraBasedState

rebondRequest(requestId) ==
    IF \E i \in 1..Len(unbondingRequests) :
           /\ unbondingRequests[i].id = requestId
           /\ unbondingRequests[i].can_rebond
           /\ unbondingRequests[i].status = "pending"
    THEN LET request ==
                 unbondingRequests[CHOOSE i \in 1..Len(unbondingRequests) :
                                       unbondingRequests[i].id = requestId]
         IN  /\ queueState' =
                    [queueState EXCEPT
                        !.back_of_queue_block =
                            queueState.back_of_queue_block
                                - request.unbonding_time_delta_blocks,
                        !.total_queue_stake = queueState.total_queue_stake - request.amount]
             /\ unbondingRequests' =
                    recalculatedRequests(
                        withoutRequest(unbondingRequests, requestId),
                        queueState.current_block
                            + timeSimulation * networkParams.BLOCKS_PER_DAY)
             /\ elapsedSinceAdded' =
                    [id \in DOMAIN elapsedSinceAdded \ {requestId} |->
                        elapsedSinceAdded[id]]
             /\ UNCHANGED <<networkParams, nextRequestId, timeSimulation>>
             /\ UNCHANGED eraBasedState
    ELSE UNCHANGED vars

advanceTime(days) ==
    LET new_time == timeSimulation + days
        current_block_sim ==
            queueState.current_block + new_time * networkParams.BLOCKS_PER_DAY
    IN  /\ timeSimulation' = new_time
        /\ unbondingRequests' = restatedRequests(unbondingRequests, current_block_sim)
        /\ elapsedSinceAdded' =
               [id \in DOMAIN elapsedSinceAdded |->
                   Min(elapsedSinceAdded[id] + days, networkParams.LOWER_BOUND_DAYS)]
        /\ UNCHANGED <<networkParams, queueState, nextRequestId>>
        /\ UNCHANGED eraBasedState

\* the Reset Time button: setTimeSimulation(0)
resetTime ==
    /\ timeSimulation' = 0
    /\ UNCHANGED <<networkParams, queueState, unbondingRequests, nextRequestId,
                   elapsedSinceAdded>>
    /\ UNCHANGED eraBasedState

\* the slashes button: pending_slashes: !prev.pending_slashes
togglePendingSlashes ==
    /\ queueState' = [queueState EXCEPT !.pending_slashes = ~queueState.pending_slashes]
    /\ UNCHANGED <<networkParams, unbondingRequests, nextRequestId, timeSimulation,
                   elapsedSinceAdded>>
    /\ UNCHANGED eraBasedState

\* the network selector: setNetworkParams(prev => ({...prev, name, UPPER_BOUND_DAYS}))
selectNetworkSequential(upperBoundDays) ==
    /\ networkParams' = [networkParams EXCEPT !.UPPER_BOUND_DAYS = upperBoundDays]
    /\ UNCHANGED queueVars
    /\ UNCHANGED eraBasedState

NextSequential ==
    \/ \E amount \in QueueAmountInputs :
           \* the Add to Queue button is disabled while pending_slashes is set
           /\ ~queueState.pending_slashes
           /\ amount > 0 => nextRequestId <= MaxRequestId
           /\ addUnbondingRequestSequential(amount)
    \/ \E requestId \in 1..MaxRequestId : rebondRequest(requestId)
    \/ \E days \in AdvanceTimeInputs :
           /\ timeSimulation + days <= MaxDays
           /\ advanceTime(days)
    \/ resetTime
    \/ togglePendingSlashes
    \/ selectNetworkSequential(UPPER_BOUND_DAYS)
    \/ selectNetworkSequential(KUSAMA_UPPER_BOUND_DAYS)

SpecSequential == InitSequential /\ [][NextSequential]_vars

---------------------------------------------------------------------------
(* The component with the window of the source: 28 eras, eras 0..27 at the
   start, requests of 10_000 DOT, the "+1 Era" and "Full Rebond" buttons *)

ReferenceAmountInputs == {0, 10000}

InitReference ==
    /\ networkParams = [BONDING_DURATION |-> SOURCE_BONDING_DURATION,
                        MIN_UNBONDING_ERAS |-> MIN_UNBONDING_ERAS,
                        MIN_SLASHABLE_SHARE |-> MIN_SLASHABLE_SHARE]
    /\ eraData = [i \in 0..(SOURCE_BONDING_DURATION - 1) |->
                     [lowest_third_stake |-> stakeProduct(DEFAULT_LOWEST_THIRD_RATIO,
                                                          DEFAULT_TOTAL_STAKED),
                      total_unbond_in_era |-> 0]]
    /\ currentEra = SOURCE_BONDING_DURATION - 1
    /\ timeAdvanced = 0
    /\ unlockChunks = <<>>
    /\ nextChunkId = 1
    /\ totalStakedDOT = DEFAULT_TOTAL_STAKED
    /\ lowestThirdRatio = DEFAULT_LOWEST_THIRD_RATIO
    /\ updateQueue = <<>>
    /\ initialQueue

NextReference ==
    \/ \E amount \in ReferenceAmountInputs :
           /\ amount > 0 => nextChunkId <= MaxReferenceChunkId
           /\ addUnbondingRequest(amount)
    \/ \E i \in 1..Len(unlockChunks) :
           rebondChunk(unlockChunks[i].id, unlockChunks[i].unbonding_amount)
    \/ /\ currentEra + 1 <= MaxReferenceEra
       /\ advanceEras(1)

SpecReference == InitReference /\ [][NextReference]_vars

---------------------------------------------------------------------------
(* Vocabulary of the properties *)

chunkSet == {unlockChunks[i] : i \in 1..Len(unlockChunks)}

\* chunks that need not be in the store: any start era around the window,
\* any amount and snapshot the inputs can produce
candidateChunks ==
    chunkSet \cup
    { [id |-> 0, unbonding_amount |-> a, unbonding_start_era |-> s,
       previous_unbonded_stake_in_era |-> p, status |-> "pending"] :
        a \in {1, 30000000, 60000000},
        s \in (currentEra - BONDING_DURATION - 1)..currentEra,
        p \in {0, 60000000} }

\* the tracked window of the claims: [current_era - (BONDING_DURATION - 1), current_era]
windowEras == (currentEra - (BONDING_DURATION - 1))..currentEra

\* threshold(era) = (1 - MIN_SLASHABLE_SHARE) * lowest_third_stake[era], from the ledger
thresholdOf(era) == shareOf(MIN_SLASHABLE_SHARE, lowestThirdOn(eraData, era))

largestThreshold ==
    LET ts == {thresholdOf(era) : era \in windowEras}
    IN  CHOOSE t \in ts : \A u \in ts : u <= t

inWindow(chunk) == chunk.unbonding_start_era >= currentEra - (BONDING_DURATION - 1)

waitOver(chunk) == currentEra >= chunk.unbonding_start_era + MIN_UNBONDING_ERAS

eligible(chunk) == canWithdraw(chunk).canWithdraw

RECURSIVE amountOf(_)
\* the sum of unbonding_amount over a set of chunks
amountOf(chunks) ==
    IF chunks = {} THEN 0
    ELSE LET c == CHOOSE x \in chunks : TRUE
         IN  c.unbonding_amount + amountOf(chunks \ {c})

\* the lookback eras the scan of chunk visits
lookbackEras(chunk) ==
    {era \in windowEras : era >= chunk.unbonding_start_era}

\* the cumulative sum over [era, currentEra] as chunk sees it
sumWindow(chunk, era) == sumWindowFrom(chunk, eraData, currentEra, era)

---------------------------------------------------------------------------
(* C1  Security bound: in every reachable state the pending chunks that are
   still inside the window and that canWithdraw reports eligible hold, in
   sum, no more than the largest per-era threshold of the window. *)
C1_SecurityBound ==
    amountOf({c \in chunkSet : c.status = "pending" /\ inWindow(c) /\ eligible(c)})
        <= largestThreshold

\* an eligible chunk stands beside one the threshold holds back
C1_Witness ==
    /\ \E c \in chunkSet : inWindow(c) /\ eligible(c) /\ c.unbonding_amount = 60000000
    /\ \E c \in chunkSet : inWindow(c) /\ waitOver(c) /\ ~eligible(c)

(* C2  Minimum wait on eligibility: whatever the ledger holds, no chunk is
   eligible while current_era < start_era + min_unbonding_eras. *)
C2_MinimumWait ==
    \A c \in candidateChunks :
        currentEra < c.unbonding_start_era + MIN_UNBONDING_ERAS
            => ~canWithdraw(c).canWithdraw

\* a chunk is held back by the minimum wait alone: its scan passes every era
C2_Witness ==
    \E c \in chunkSet :
        /\ currentEra < c.unbonding_start_era + MIN_UNBONDING_ERAS
        /\ \A era \in lookbackEras(c) : sumWindow(c, era) <= thresholdOf(era)
        /\ canWithdraw(c).reason = "minimum_wait"

(* C3  Staleness eligibility: a chunk whose start era lies before the window
   is eligible whatever the ledger contains. *)
C3_Staleness ==
    \A c \in candidateChunks :
        c.unbonding_start_era < currentEra - (BONDING_DURATION - 1)
            => canWithdraw(c).canWithdraw

\* an aged-out chunk is eligible while an era of the window is over its threshold
C3_Witness ==
    /\ \E c \in chunkSet :
           /\ c.unbonding_start_era < currentEra - (BONDING_DURATION - 1)
           /\ canWithdraw(c).canWithdraw
    /\ \E era \in windowEras : totalUnbondOn(eraData, era) > thresholdOf(era)

\* the number of lookback eras that pass before the first failure
passedEras(chunk) ==
    Cardinality({era \in lookbackEras(chunk) :
                    \A later \in lookbackEras(chunk) :
                        later >= era => sumWindow(chunk, later) <= thresholdOf(later)})

(* C4  Threshold boundary: a lookback era passes exactly when the cumulative
   sum is at most its threshold.  A chunk inside the window whose wait is over
   is eligible iff every lookback era has sum <= threshold, and the estimate
   counts the eras up to the first one with sum > threshold. *)
C4_ThresholdBoundary ==
    \A c \in chunkSet :
        inWindow(c) =>
            /\ waitOver(c) =>
                   (canWithdraw(c).canWithdraw <=>
                        \A era \in lookbackEras(c) : sumWindow(c, era) <= thresholdOf(era))
            /\ estimateUnbondingTime(c) =
                   Max(BONDING_DURATION - passedEras(c),
                       Max(MIN_UNBONDING_ERAS,
                           c.unbonding_start_era + MIN_UNBONDING_ERAS - currentEra))

\* one chunk meets a threshold exactly and is eligible, another is one unit
\* above it and is held back
C4_Witness ==
    /\ \E c \in chunkSet :
           /\ inWindow(c) /\ canWithdraw(c).canWithdraw
           /\ \E era \in lookbackEras(c) : sumWindow(c, era) = thresholdOf(era)
    /\ \E c \in chunkSet :
           /\ inWindow(c) /\ waitOver(c) /\ ~canWithdraw(c).canWithdraw
           /\ sumWindow(c, canWithdraw(c).era) = thresholdOf(canWithdraw(c).era) + 1

\* two requests of 60_000_000 made one after the other in era s, nothing else
\* in the eras since, under a threshold of 100_000_000
sameEraPair(a, b) ==
    /\ a.unbonding_start_era = b.unbonding_start_era
    /\ a.previous_unbonded_stake_in_era = 0 /\ a.unbonding_amount = 60000000
    /\ b.previous_unbonded_stake_in_era = 60000000 /\ b.unbonding_amount = 60000000
    /\ totalUnbondOn(eraData, a.unbonding_start_era) = 120000000
    /\ \A era \in lookbackEras(a) :
           /\ thresholdOf(era) = 100000000
           /\ era # a.unbonding_start_era => totalUnbondOn(eraData, era) = 0

(* C5  Same-era capping: of two chunks of 60_000_000 created one after the
   other in the same era (snapshots 0 and 60_000_000) under a threshold of
   100_000_000, the first is judged against 60_000_000 and is eligible once
   the minimum wait has passed, the second against 120_000_000 and is not. *)
C5_SameEraCapping ==
    \A a, b \in chunkSet :
        sameEraPair(a, b) /\ inWindow(a) =>
            /\ sumWindow(a, a.unbonding_start_era) = 60000000
            /\ sumWindow(b, b.unbonding_start_era) = 120000000
            /\ waitOver(a) => canWithdraw(a).canWithdraw /\ ~canWithdraw(b).canWithdraw
            /\ ~waitOver(a) => ~canWithdraw(a).canWithdraw /\ ~canWithdraw(b).canWithdraw

\* the pair, with the minimum wait over
C5_Witness ==
    \E a, b \in chunkSet :
        /\ sameEraPair(a, b) /\ inWindow(a) /\ waitOver(a)
        /\ canWithdraw(a).canWithdraw /\ ~canWithdraw(b).canWithdraw

\* a step of addUnbondingRequest that creates a chunk
addStep ==
    \E amount \in AmountInputs : amount > 0 /\ addUnbondingRequest(amount)

\* what canWithdraw and estimateUnbondingTime report for chunk over the ledger
\* eras once the era has been advanced by d with nothing else done
outcomeAfter(chunk, eras, d) ==
    LET cur    == currentEra + d
        ledger == IF d = 0 THEN eras
                  ELSE advancedEraData(eras, cur, networkParams,
                                       lowestThirdRatio, totalStakedDOT)
    IN  <<canWithdrawOn(chunk, ledger, cur, networkParams),
          estimateUnbondingTimeOn(chunk, ledger, cur, networkParams)>>

(* C6  Cap isolation: a request created in X's start era after X, in any
   interleaving with rebonds of other chunks of that era, never changes what
   canWithdraw(X) and estimateUnbondingTime(X) report, now or at a later era.
   rebondChunk lowers the era's total under X's snapshot + amount, and the next
   request of the era is then counted against X. *)
C6_Original ==
    [][addStep =>
          \A x \in chunkSet :
              x.unbonding_start_era = currentEra =>
                  \A d \in 0..BONDING_DURATION :
                      outcomeAfter(x, eraData', d) = outcomeAfter(x, eraData, d)]_vars

(* C6  Cap isolation, as far as the code provides it: a request created in X's start era after X
   changes nothing that canWithdraw(X) or estimateUnbondingTime(X) report, now
   or at any later era, provided total_unbond_in_era[start_era] is at least
   X's previous_unbonded_snapshot + amount when the request is made (as it is
   while no chunk created in that era before X has been rebonded). *)
C6_CapIsolation ==
    [][addStep =>
          \A x \in chunkSet :
              /\ x.unbonding_start_era = currentEra
              /\ totalUnbondOn(eraData, currentEra)
                     >= x.previous_unbonded_stake_in_era + x.unbonding_amount
              => \A d \in 0..BONDING_DURATION :
                     outcomeAfter(x, eraData', d) = outcomeAfter(x, eraData, d)]_vars

\* three requests have been made, a later request of X's era is in the ledger
\* and the cap keeps it out of X's sum: X is under the threshold, the era as a
\* whole is over it
C6_Witness ==
    \E x, y \in chunkSet :
        /\ x.unbonding_start_era = y.unbonding_start_era
        /\ y.id > x.id
        /\ inWindow(x)
        /\ sumWindow(x, x.unbonding_start_era)
               = x.previous_unbonded_stake_in_era + x.unbonding_amount
        /\ sumWindow(x, x.unbonding_start_era) <= thresholdOf(x.unbonding_start_era)
        /\ totalUnbondOn(eraData, x.unbonding_start_era) > thresholdOf(x.unbonding_start_era)
        /\ nextChunkId > 3

(* C7  Window invariant: the ledger holds exactly bonding_duration era
   indices, contiguous, the largest being the current era; in particular
   after every advanceEras. *)
C7_WindowInvariant ==
    /\ DOMAIN eraData = (currentEra - (BONDING_DURATION - 1))..currentEra
    /\ Cardinality(DOMAIN eraData) = BONDING_DURATION

\* the era has been advanced: era 0 is evicted and a fresh era is present
C7_Witness ==
    /\ timeAdvanced > 0
    /\ 0 \notin DOMAIN eraData
    /\ currentEra \in DOMAIN eraData

(* C8  Non-negativity: total_unbond_in_era[era] >= 0 for every era of the
   ledger, after any sequence of requests and rebonds of any amount. *)
C8_NonNegative ==
    \A era \in DOMAIN eraData : totalUnbondOn(eraData, era) >= 0

\* a chunk of 1 was created before c in c's era and has since been rebonded
\* with a larger requested amount: the era holds c alone
C8_Witness ==
    \E c \in chunkSet :
        /\ c.previous_unbonded_stake_in_era = 1
        /\ \A d \in chunkSet : d.unbonding_start_era = c.unbonding_start_era => d = c
        /\ totalUnbondOn(eraData, c.unbonding_start_era) = c.unbonding_amount

\* the original statement of C9: every chunk's estimate is at least the minimum wait
C9_Original ==
    \A c \in chunkSet : estimateUnbondingTime(c) >= MIN_UNBONDING_ERAS

(* C9  Minimum wait on estimates, amended: the estimate of every chunk whose
   start era is inside the window is at least min_unbonding_eras; for a chunk
   whose start era has aged out of the window the estimate is 0. *)
C9_EstimateFloor ==
    \A c \in candidateChunks :
        /\ inWindow(c) => estimateUnbondingTime(c) >= MIN_UNBONDING_ERAS
        /\ ~inWindow(c) => estimateUnbondingTime(c) = 0

\* the floor decides: every lookback era of an old chunk passes, and beside it
\* a chunk has aged out
C9_Witness ==
    /\ \E c \in chunkSet :
           /\ inWindow(c)
           /\ BONDING_DURATION - passedEras(c) < MIN_UNBONDING_ERAS
           /\ estimateUnbondingTime(c) = MIN_UNBONDING_ERAS
    /\ \E c \in chunkSet : ~inWindow(c) /\ estimateUnbondingTime(c) = 0

\* a step of rebondChunk
rebondStep ==
    \E chunkId \in 1..(nextChunkId - 1), rebond_amount \in RebondInputs :
        rebondChunk(chunkId, rebond_amount)

(* C10  Monotonic relief (ledger): no step of rebondChunk, whatever the chunk
   and the requested amount, increases total_unbond_in_era of any era. *)
C10_RebondNeverIncreases ==
    [][rebondStep =>
          /\ DOMAIN eraData' = DOMAIN eraData
          /\ \A era \in DOMAIN eraData :
                 totalUnbondOn(eraData', era) <= totalUnbondOn(eraData, era)]_vars

\* a partial rebond has acted: a chunk holds 30_000_000, which no request creates,
\* and its era holds less than the chunk's snapshot plus a whole request
C10_Witness ==
    \E c \in chunkSet :
        /\ c.unbonding_amount = 30000000
        /\ inWindow(c)
        /\ totalUnbondOn(eraData, c.unbonding_start_era)
               < c.previous_unbonded_stake_in_era + 60000000

(* C11  Monotonic relief (estimates): a step of rebondChunk on chunk X, partial
   or full, never increases estimateUnbondingTime(Y) of another pending chunk
   Y and never turns canWithdraw(Y) from eligible to not eligible. *)
C11_RebondRelievesOthers ==
    [][\A chunkId \in 1..(nextChunkId - 1), rebond_amount \in RebondInputs :
          rebondChunk(chunkId, rebond_amount) =>
              \A y \in chunkSet :
                  y.id # chunkId /\ y.status = "pending" =>
                      /\ estimateUnbondingTimeOn(y, eraData', currentEra', networkParams')
                             <= estimateUnbondingTime(y)
                      /\ canWithdraw(y).canWithdraw =>
                             canWithdrawOn(y, eraData', currentEra', networkParams').canWithdraw]_vars

\* a rebond has relieved another chunk: y was created on top of 60_000_000 and
\* would be over the threshold with it, its era now holds less than y's
\* snapshot + amount and y's scan passes its start era
C11_Witness ==
    \E y \in chunkSet :
        /\ inWindow(y)
        /\ y.previous_unbonded_stake_in_era = 60000000
        /\ y.unbonding_amount = 60000000
        /\ y.previous_unbonded_stake_in_era + y.unbonding_amount
               > thresholdOf(y.unbonding_start_era)
        /\ totalUnbondOn(eraData, y.unbonding_start_era)
               < y.previous_unbonded_stake_in_era + y.unbonding_amount
        /\ sumWindow(y, y.unbonding_start_era) <= thresholdOf(y.unbonding_start_era)
        /\ estimateUnbondingTime(y) < BONDING_DURATION

\* the ids of the chunks in the store
storedIds == {c.id : c \in chunkSet}

(* C12  Full rebond: a step of rebondChunk that asks for the whole amount of a
   pending chunk removes the chunk from the store, and a step of rebondChunk
   on an id that names no pending chunk, in particular the id of a chunk
   removed earlier, changes neither the ledger nor the chunk store. *)
C12_FullRebond ==
    [][\A chunkId \in 1..(nextChunkId - 1), rebond_amount \in RebondInputs :
          rebondChunk(chunkId, rebond_amount) =>
              /\ \A c \in chunkSet :
                     rebondTarget(c, chunkId) /\ rebond_amount >= c.unbonding_amount
                         => chunkId \notin {d.id : d \in {unlockChunks'[i] : i \in 1..Len(unlockChunks')}}
              /\ (\A c \in chunkSet : ~rebondTarget(c, chunkId))
                     => eraData' = eraData /\ unlockChunks' = unlockChunks]_vars

\* a chunk has been rebonded in full: its id has been given out and is not in
\* the store, while the chunk created after it is still there and its era
\* still holds that chunk's amount
C12_Witness ==
    /\ nextChunkId > 2
    /\ 1 \notin storedIds
    /\ \E c \in chunkSet :
           /\ c.id = 2
           /\ inWindow(c)
           /\ totalUnbondOn(eraData, c.unbonding_start_era) >= c.unbonding_amount

\* the reference scenario: one chunk of 10_000 created at era 27 is all the
\* ledger holds, under the parameters and the stake of the source
referenceScenario(c) ==
    /\ networkParams.BONDING_DURATION = 28
    /\ networkParams.MIN_UNBONDING_ERAS = 2
    /\ networkParams.MIN_SLASHABLE_SHARE = 50
    /\ c.unbonding_start_era = 27
    /\ c.unbonding_amount = 10000
    /\ c.status = "pending"
    /\ \A era \in DOMAIN eraData :
           /\ eraData[era].lowest_third_stake = 229600000
           /\ eraData[era].total_unbond_in_era = IF era = 27 THEN 10000 ELSE 0

(* C13  Reference scenario: with bonding_duration 28, min_unbonding_eras 2,
   min_slashable_share 0.5 and every era at lowest_third_stake 229_600_000, a
   single chunk of 10_000 created at era 27, all other eras empty, is not
   eligible at era 28, for the minimum-wait reason, and is eligible at era 29. *)
C13_ReferenceScenario ==
    \A c \in chunkSet :
        referenceScenario(c) =>
            /\ currentEra = 28 =>
                   /\ ~canWithdraw(c).canWithdraw
                   /\ canWithdraw(c).reason = "minimum_wait"
            /\ currentEra = 29 => canWithdraw(c).canWithdraw

\* the scenario at era 29, reached from era 27 one era at a time: the chunk has
\* passed the scan of eras 29, 28 and 27
C13_Witness ==
    \E c \in chunkSet :
        /\ referenceScenario(c)
        /\ currentEra = 29
        /\ timeAdvanced = 2
        /\ canWithdraw(c).reason = "all_passed"

\* the chunk store after a step
chunkSetAfter == {unlockChunks'[i] : i \in 1..Len(unlockChunks')}

(* C14  Request creation: a step of addUnbondingRequest with amount > 0 adds
   one pending chunk whose start era is the current era and whose snapshot is
   total_unbond_in_era[current_era] as it was before the step, and increases
   total_unbond_in_era[current_era] by exactly amount; the other chunks and
   the other eras are as they were. *)
C14_RequestCreation ==
    [][\A amount \in AmountInputs :
          amount > 0 /\ addUnbondingRequest(amount) =>
              /\ chunkSetAfter =
                     chunkSet \cup
                     {[id |-> nextChunkId,
                       unbonding_amount |-> amount,
                       unbonding_start_era |-> currentEra,
                       previous_unbonded_stake_in_era |-> totalUnbondOn(eraData, currentEra),
                       status |-> "pending"]}
              /\ Len(unlockChunks') = Len(unlockChunks) + 1
              /\ totalUnbondOn(eraData', currentEra)
                     = totalUnbondOn(eraData, currentEra) + amount
              /\ DOMAIN eraData' = DOMAIN eraData
              /\ \A era \in DOMAIN eraData :
                     /\ era # currentEra => eraData'[era] = eraData[era]
                     /\ eraData'[era].lowest_third_stake = eraData[era].lowest_third_stake]_vars

\* the newest chunk was created in the current era on top of an earlier request:
\* its snapshot is 60_000_000 and the era holds snapshot + amount
C14_Witness ==
    \E c \in chunkSet :
        /\ c.id = nextChunkId - 1
        /\ c.unbonding_start_era = currentEra
        /\ c.previous_unbonded_stake_in_era = 60000000
        /\ totalUnbondOn(eraData, currentEra)
               = c.previous_unbonded_stake_in_era + c.unbonding_amount

(* C15  Invalid amount: a step of addUnbondingRequest with amount <= 0 leaves
   the ledger, the chunk store and the next chunk id unchanged. *)
C15_InvalidAmount ==
    [][\A amount \in AmountInputs :
          amount <= 0 /\ addUnbondingRequest(amount) =>
              /\ eraData' = eraData
              /\ unlockChunks' = unlockChunks
              /\ nextChunkId' = nextChunkId]_vars

\* a request of 0 is made where a valid one would be accepted and would be
\* seen: the current era already holds a chunk and an id is left
C15_Witness ==
    /\ 0 \in AmountInputs
    /\ ENABLED addUnbondingRequest(0)
    /\ nextChunkId <= MaxChunkId
    /\ \E c \in chunkSet : c.unbonding_start_era = currentEra
    /\ totalUnbondOn(eraData, currentEra) > 0

\* a step of advanceEras
advanceStep == \E eras \in AdvanceInputs : advanceEras(eras)

(* C16  Request creation is the only operation that increases
   total_unbond_in_era: no step of rebondChunk, advanceEras or of the stake
   inputs makes total_unbond_in_era[era] larger for an era that is in the
   ledger before and after the step. *)
C16_OnlyRequestsIncrease ==
    [][rebondStep \/ advanceStep \/ stakeNext =>
          \A era \in DOMAIN eraData \cap DOMAIN eraData' :
              totalUnbondOn(eraData', era) <= totalUnbondOn(eraData, era)]_vars

\* the era has been advanced and the stake inputs changed, and an era kept
\* through both holds a request next to an empty era
C16_Witness ==
    /\ timeAdvanced > 0
    /\ totalStakedDOT # DEFAULT_TOTAL_STAKED
    /\ \E era \in DOMAIN eraData :
           /\ era < currentEra
           /\ era + 1 \in DOMAIN eraData
           /\ totalUnbondOn(eraData, era) = 0
           /\ totalUnbondOn(eraData, era + 1) > 0

(* C17  Rebond effect: a step of rebondChunk on a pending chunk whose start era
   is inside the window takes actual = min(requested amount, chunk amount),
   sets total_unbond_in_era[start_era] to max(0, old total - actual), applied
   once, and leaves the chunk pending with its amount reduced by actual, or
   removes it when nothing is left; the other chunks and eras are untouched. *)
C17_RebondEffect ==
    [][\A chunkId \in 1..(nextChunkId - 1), rebond_amount \in RebondInputs :
          rebondChunk(chunkId, rebond_amount) =>
              \A c \in chunkSet :
                  rebondTarget(c, chunkId) /\ inWindow(c) =>
                      LET actual == Min(rebond_amount, c.unbonding_amount)
                          left   == c.unbonding_amount - actual
                      IN  /\ DOMAIN eraData' = DOMAIN eraData
                          /\ \A era \in DOMAIN eraData :
                                 eraData'[era] =
                                     IF era = c.unbonding_start_era
                                     THEN [eraData[era] EXCEPT !.total_unbond_in_era =
                                               Max(0, eraData[era].total_unbond_in_era - actual)]
                                     ELSE eraData[era]
                          /\ chunkSetAfter =
                                 (chunkSet \ {c}) \cup
                                 (IF left <= 0 THEN {}
                                  ELSE {[c EXCEPT !.unbonding_amount = left]})
                          /\ Len(unlockChunks') = Cardinality(chunkSetAfter)]_vars

\* both outcomes have happened in one era: the first chunk was rebonded in part
\* and holds 30_000_000, the second was rebonded in full, and the era holds
\* what is left
C17_Witness ==
    /\ nextChunkId = 3
    /\ \E c \in chunkSet :
           /\ chunkSet = {c}
           /\ c.id = 1
           /\ c.unbonding_amount = 30000000
           /\ c.status = "pending"
           /\ inWindow(c)
           /\ totalUnbondOn(eraData, c.unbonding_start_era) = 30000000

(* C18  Rebond of an aged-out chunk: a step of rebondChunk on a pending chunk
   with start_era < current_era - (bonding_duration - 1) reduces the chunk, or
   removes it, and leaves the ledger as it was: every EraRecord unchanged and
   no era added. *)
C18_AgedOutRebond ==
    [][\A chunkId \in 1..(nextChunkId - 1), rebond_amount \in RebondInputs :
          rebondChunk(chunkId, rebond_amount) =>
              \A c \in chunkSet :
                  rebondTarget(c, chunkId) /\ ~inWindow(c) =>
                      LET left == c.unbonding_amount
                                      - Min(rebond_amount, c.unbonding_amount)
                      IN  /\ eraData' = eraData
                          /\ chunkSetAfter =
                                 (chunkSet \ {c}) \cup
                                 (IF left <= 0 THEN {}
                                  ELSE {[c EXCEPT !.unbonding_amount = left]})]_vars

\* an aged-out chunk has been rebonded in part: it was created whole in an era
\* the ledger no longer holds and is left with 30_000_000
C18_Witness ==
    \E c \in chunkSet :
        /\ ~inWindow(c)
        /\ c.unbonding_start_era \notin DOMAIN eraData
        /\ c.previous_unbonded_stake_in_era = 0
        /\ c.unbonding_amount = 30000000
        /\ \A era \in DOMAIN eraData : totalUnbondOn(eraData, era) = 0

(* C19  Era advance: after a step of advanceEras(n) every era index of both the
   old and the new window keeps its EraRecord under the same index, every new
   index has total_unbond_in_era = 0 and lowest_third_stake = ratio * total
   staked, the indices below the new floor are gone, and the chunk store is
   unchanged. *)
C19_EraAdvance ==
    [][\A eras \in AdvanceInputs :
          advanceEras(eras) =>
              /\ DOMAIN eraData' =
                     (currentEra + eras - (BONDING_DURATION - 1))..(currentEra + eras)
              /\ \A era \in DOMAIN eraData' :
                     IF era \in DOMAIN eraData
                     THEN eraData'[era] = eraData[era]
                     ELSE eraData'[era] =
                              [lowest_third_stake |->
                                   stakeProduct(lowestThirdRatio, totalStakedDOT),
                               total_unbond_in_era |-> 0]
              /\ unlockChunks' = unlockChunks]_vars

\* the era was advanced by one with a request in the ledger: the request's era
\* is kept with its total, the new current era is empty and the oldest era of
\* the initial window is gone
C19_Witness ==
    /\ timeAdvanced = 1
    /\ totalUnbondOn(eraData, currentEra) = 0
    /\ totalUnbondOn(eraData, currentEra - 1) = 60000000
    /\ 0 \notin DOMAIN eraData
    /\ \E c \in chunkSet : c.unbonding_start_era = currentEra - 1

(* C20  Invalid advance: a step of advanceEras(n) with n <= 0 leaves the
   current era, the ledger and the chunk store unchanged, so that the current
   era never decreases.  advanceEras has no test of its argument: with n < 0
   it moves the current era and the window back. *)
C20_Original ==
    [][\A eras \in DirectAdvanceInputs :
          eras <= 0 /\ advanceEras(eras) =>
              /\ currentEra' = currentEra
              /\ eraData' = eraData
              /\ unlockChunks' = unlockChunks]_vars

(* C21  Stake inputs: after a step of the stake inputs every era of the window
   holds lowest_third_stake = ratio * total staked, for the values the step
   sets, and no total_unbond_in_era, no window membership and no chunk has
   changed. *)
C21_StakeInputs ==
    [][stakeNext =>
          /\ DOMAIN eraData' = DOMAIN eraData
          /\ \A era \in DOMAIN eraData :
                 eraData'[era] =
                     [lowest_third_stake |-> stakeProduct(lowestThirdRatio', totalStakedDOT'),
                      total_unbond_in_era |-> eraData[era].total_unbond_in_era]
          /\ unlockChunks' = unlockChunks
          /\ currentEra' = currentEra]_vars

\* both stake inputs have been changed with a request in an older era of the
\* window: that era holds the new stake and its total
C21_Witness ==
    /\ totalStakedDOT = 240000000
    /\ lowestThirdRatio = 250
    /\ \E c \in chunkSet :
           /\ c.unbonding_start_era < currentEra
           /\ inWindow(c)
           /\ eraData[c.unbonding_start_era].lowest_third_stake = 60000000
           /\ eraData[c.unbonding_start_era].total_unbond_in_era = c.unbonding_amount

(* C22  Chunk identity: after every step the chunks of the store have pairwise
   different ids, all below the id counter, the counter has not gone down,
   and a chunk that is new to the store carries an id that was never given
   out before (not below the counter of the state before), so that the id of
   a removed chunk is not assigned again. *)
C22_ChunkIdentity ==
    [][/\ \A i, j \in 1..Len(unlockChunks') :
              i # j => unlockChunks'[i].id # unlockChunks'[j].id
       /\ \A c \in chunkSetAfter : c.id < nextChunkId'
       /\ nextChunkId' >= nextChunkId
       /\ \A c \in chunkSetAfter :
              c.id \notin storedIds => c.id >= nextChunkId]_vars

\* the first chunk was rebonded in full and the next request was made after
\* that, in the same era (its snapshot is 0): it got id 2, not 1 again
C22_Witness ==
    /\ nextChunkId = 3
    /\ \E c \in chunkSet :
           /\ chunkSet = {c}
           /\ c.id = 2
           /\ c.unbonding_start_era = BONDING_DURATION - 1
           /\ c.previous_unbonded_stake_in_era = 0

\* the pending chunks of the store that started in era
pendingOf(era) ==
    {c \in chunkSet : c.status = "pending" /\ c.unbonding_start_era = era}

(* C23  Ledger/chunk consistency: in every reachable state, for every era of
   the window, total_unbond_in_era[era] is the sum of the remaining amounts of
   the pending chunks whose start era is that era. *)
C23_LedgerMatchesChunks ==
    \A era \in DOMAIN eraData :
        totalUnbondOn(eraData, era) = amountOf(pendingOf(era))

\* an era of the window holds two chunks, one of them rebonded in part, after
\* the era was advanced: 30_000_000 + 60_000_000
C23_Witness ==
    \E era \in DOMAIN eraData :
        /\ era < currentEra
        /\ Cardinality(pendingOf(era)) = 2
        /\ \E c \in pendingOf(era) : c.unbonding_amount = 30000000
        /\ totalUnbondOn(eraData, era) = 90000000

\* canWithdraw(chunk) once the ledger eras has been advanced by d eras, no
\* request made and no stake input changed
eligibleAfter(chunk, eras, d) ==
    outcomeAfter(chunk, eras, d)[1].canWithdraw

\* the stores and ledgers one rebond away from the present ones, the present
\* ones included
afterOneRebond ==
    {<<unlockChunks, eraData>>} \cup
    {<<rebondedChunks(unlockChunks, id, rebond_amount),
       rebondedEraData(eraData, unlockChunks, 1, id, rebond_amount,
                       <<currentEra, networkParams>>)>> :
         id \in storedIds, rebond_amount \in RebondInputs}

(* C24  Estimate soundness: if estimateUnbondingTime(chunk) returns d at era c,
   then once the era has been advanced by d, with no request created and no
   stake input changed, canWithdraw(chunk) reports eligible at era c + d;
   also when a chunk is rebonded, in part or in full, before the era is
   advanced. *)
C24_EstimateSoundness ==
    /\ \A c \in chunkSet : eligibleAfter(c, eraData, estimateUnbondingTime(c))
    /\ \A after \in afterOneRebond :
           \A i \in 1..Len(after[1]) :
               \E c \in chunkSet :
                   /\ c.id = after[1][i].id
                   /\ eligibleAfter(after[1][i], after[2], estimateUnbondingTime(c))

\* a chunk whose wait is over is held back by the threshold of an older era:
\* its estimate d is short of the whole window, the chunk is still refused
\* after d - 1 eras and is released after d
C24_Witness ==
    \E c \in chunkSet :
        /\ inWindow(c) /\ waitOver(c) /\ ~eligible(c)
        /\ estimateUnbondingTime(c) > 0
        /\ estimateUnbondingTime(c) < BONDING_DURATION
        /\ ~eligibleAfter(c, eraData, estimateUnbondingTime(c) - 1)
        /\ eligibleAfter(c, eraData, estimateUnbondingTime(c))

(* C25  Prospective estimate agrees with the created chunk: for every amount
   > 0, estimateNewUnbondingTime(amount) computed before a step of
   addUnbondingRequest(amount) equals estimateUnbondingTime of the chunk the
   step creates, computed at the same era.  estimateNewUnbondingTime scans the
   whole window, estimateUnbondingTime stops at the chunk's start era. *)
C25_Original ==
    [][\A amount \in AmountInputs :
          amount > 0 /\ addUnbondingRequest(amount) =>
              \A c \in chunkSetAfter :
                  c.id = nextChunkId =>
                      estimateNewUnbondingTime(amount)
                          = estimateUnbondingTimeOn(c, eraData', currentEra', networkParams')]_vars

\* the window under the bonding duration now selected
inWindowNow(chunk) ==
    chunk.unbonding_start_era >= currentEra - (networkParams.BONDING_DURATION - 1)

\* the eras the forward check of chunk visits, from its start era down to the
\* oldest era of the window
forwardEras(chunk) ==
    (currentEra - (networkParams.BONDING_DURATION - 1))..chunk.unbonding_start_era

RECURSIVE totalOver(_)
\* the sum of total_unbond_in_era over a set of eras
totalOver(eraSet) ==
    IF eraSet = {} THEN 0
    ELSE LET era == CHOOSE x \in eraSet : TRUE
         IN  totalUnbondOn(eraData, era) + totalOver(eraSet \ {era})

\* what the forward check has accumulated when it tests era: the chunk's
\* capped share of its start era and the totals of the eras from era up to
\* the one before the start era
accumulatedAt(chunk, era) ==
    Min(totalUnbondOn(eraData, chunk.unbonding_start_era),
        chunk.previous_unbonded_stake_in_era + chunk.unbonding_amount)
    + totalOver(era..(chunk.unbonding_start_era - 1))

\* the eras at which the accumulated total has reached the threshold
blockingEras(chunk) ==
    {era \in forwardEras(chunk) : accumulatedAt(chunk, era) >= thresholdOf(era)}

(* C26  Forward-accumulation check: once the minimum wait is met, a chunk
   inside the window is refused exactly when the accumulated total is greater
   than or equal to the threshold of some era from its start era down to
   current_era - (BONDING_DURATION - 1), and the refusal names the first such
   era met, the newest; a total equal to the threshold blocks. *)
C26_ForwardCheck ==
    \A c \in chunkSet :
        waitOver(c) /\ inWindowNow(c) =>
            IF blockingEras(c) = {}
            THEN canWithdrawForward(c).canWithdraw
            ELSE /\ ~canWithdrawForward(c).canWithdraw
                 /\ canWithdrawForward(c).reason = "threshold_exceeded"
                 /\ canWithdrawForward(c).era \in blockingEras(c)
                 /\ \A era \in blockingEras(c) : era <= canWithdrawForward(c).era

\* one chunk is refused at its start era, where its share is exactly the
\* threshold, and another at an older era, which the accumulation reaches
C26_Witness ==
    /\ \E c \in chunkSet :
           /\ waitOver(c) /\ inWindowNow(c)
           /\ ~canWithdrawForward(c).canWithdraw
           /\ canWithdrawForward(c).era = c.unbonding_start_era
           /\ thresholdOf(c.unbonding_start_era) > 0
           /\ accumulatedAt(c, c.unbonding_start_era) = thresholdOf(c.unbonding_start_era)
    /\ \E c \in chunkSet :
           /\ waitOver(c) /\ inWindowNow(c)
           /\ ~canWithdrawForward(c).canWithdraw
           /\ canWithdrawForward(c).era < c.unbonding_start_era
           /\ canWithdrawForward(c).era \in DOMAIN eraData

(* C27  Ledger size: in every reachable state, the state right after the
   network selector has set another bonding duration included, the ledger
   holds exactly BONDING_DURATION contiguous eras, the newest being the
   current era.  The selector replaces BONDING_DURATION and leaves the ledger
   as it is until the next advanceEras. *)
C27_Original ==
    DOMAIN eraData =
        (currentEra - (networkParams.BONDING_DURATION - 1))..currentEra

(* C28  Era advance in the forward-accumulation variant: after a step of
   advanceEras(n) every era index of both the old and the new window keeps,
   under the same index, the EraRecord it had, and only the indices new to
   the window receive total_unbond_in_era = 0.  The handler copies
   prev[eraIndex - n] to eraIndex: the records move with the window. *)
C28_Original ==
    [][\A eras \in AdvanceInputs :
          advanceErasForward(eras) =>
              \A era \in DOMAIN eraData' :
                  IF era \in DOMAIN eraData
                  THEN eraData'[era] = eraData[era]
                  ELSE totalUnbondOn(eraData', era) = 0]_vars

\* what the chunk counts of its start era in both algorithms
cappedShare(chunk) ==
    Min(totalUnbondOn(eraData, chunk.unbonding_start_era),
        chunk.previous_unbonded_stake_in_era + chunk.unbonding_amount)

\* the chunk alone is under every threshold from its start era down, nothing
\* was requested in the older eras of the window, and the requests made since
\* its start era take the sum over the threshold of the start era
onlyLaterRequests(chunk) ==
    /\ \A era \in windowEras :
           era <= chunk.unbonding_start_era => cappedShare(chunk) < thresholdOf(era)
    /\ \A era \in windowEras :
           era < chunk.unbonding_start_era => totalUnbondOn(eraData, era) = 0
    /\ cappedShare(chunk) + totalOver((chunk.unbonding_start_era + 1)..currentEra)
           > thresholdOf(chunk.unbonding_start_era)

\* the chunk alone is within the threshold of its start era, nothing was
\* requested since, and the requests of the older eras of the window take the
\* accumulated total to a threshold
onlyEarlierRequests(chunk) ==
    /\ cappedShare(chunk) <= thresholdOf(chunk.unbonding_start_era)
    /\ \A era \in windowEras :
           era > chunk.unbonding_start_era => totalUnbondOn(eraData, era) = 0
    /\ \E era \in windowEras :
           /\ era < chunk.unbonding_start_era
           /\ cappedShare(chunk) + totalOver(era..(chunk.unbonding_start_era - 1))
                  >= thresholdOf(era)

(* C29  The two withdrawal algorithms are not equivalent: they count different
   eras.  For a chunk inside the window whose wait is over, on the same ledger,
   parameters and current era: when only requests made after its start era
   weigh on it, the backward scan refuses it and the forward accumulation
   releases it; when only requests of older eras weigh on it, the forward
   accumulation refuses it and the backward scan releases it.  Such states
   are reached by requests and era advances. *)
C29_NotEquivalent ==
    \A c \in chunkSet :
        waitOver(c) /\ inWindow(c) =>
            /\ onlyLaterRequests(c) =>
                   ~canWithdraw(c).canWithdraw /\ canWithdrawForward(c).canWithdraw
            /\ onlyEarlierRequests(c) =>
                   canWithdraw(c).canWithdraw /\ ~canWithdrawForward(c).canWithdraw

\* both cases in one state: of two chunks requested in consecutive eras, the
\* backward scan refuses the older and releases the newer, the forward
\* accumulation does the opposite
C29_Witness ==
    \E older, newer \in chunkSet :
        /\ older.unbonding_start_era < newer.unbonding_start_era
        /\ waitOver(newer) /\ inWindow(older)
        /\ onlyLaterRequests(older) /\ onlyEarlierRequests(newer)
        /\ ~canWithdraw(older).canWithdraw /\ canWithdrawForward(older).canWithdraw
        /\ canWithdraw(newer).canWithdraw /\ ~canWithdrawForward(newer).canWithdraw

(* C30  Evaluator and estimator agree on a threshold failure: whenever
   canWithdraw(chunk) refuses because a threshold is exceeded, its
   estimatedErasRemaining is max(0, BONDING_DURATION - e, MIN_UNBONDING_ERAS,
   start_era + MIN_UNBONDING_ERAS - current_era), e being the number of
   lookback eras that passed before the failure, and it equals
   estimateUnbondingTime(chunk) on the same ledger and era. *)
C30_EvaluatorEstimatorAgree ==
    \A c \in chunkSet :
        canWithdraw(c).reason = "threshold_exceeded" =>
            /\ canWithdraw(c).estimatedErasRemaining =
                   Max(Max(0, BONDING_DURATION - passedEras(c)),
                       Max(MIN_UNBONDING_ERAS,
                           c.unbonding_start_era + MIN_UNBONDING_ERAS - currentEra))
            /\ canWithdraw(c).estimatedErasRemaining = estimateUnbondingTime(c)

\* a chunk whose wait is over fails at a lookback era newer than its start
\* era: what remains is more than the minimum wait
C30_Witness ==
    \E c \in chunkSet :
        /\ canWithdraw(c).reason = "threshold_exceeded"
        /\ canWithdraw(c).era > c.unbonding_start_era
        /\ canWithdraw(c).estimatedErasRemaining > MIN_UNBONDING_ERAS
        /\ canWithdraw(c).estimatedErasRemaining = BONDING_DURATION - passedEras(c)

\* the amounts requested in the chunk's start era before the chunk, by id
requestedBefore(chunks, i) ==
    {j \in 1..Len(chunks) :
        /\ chunks[j].unbonding_start_era = chunks[i].unbonding_start_era
        /\ chunks[j].id < chunks[i].id}

RECURSIVE amountAt(_, _)
\* the sum of unbonding_amount over positions of a chunk array
amountAt(chunks, positions) ==
    IF positions = {} THEN 0
    ELSE LET j == CHOOSE x \in positions : TRUE
         IN  chunks[j].unbonding_amount + amountAt(chunks, positions \ {j})

(* C31  Operations see the consistent prior state: when addUnbondingRequest
   handlers are dispatched one after the other in the same era, however their
   reads and their queued updates interleave, the chunks get distinct ids and
   each chunk's snapshot is the snapshot of the request before it plus that
   request's amount.  The handler takes id and snapshot from the state of the
   last render: two handlers dispatched between two renders read the same. *)
C31_Original ==
    /\ \A i, j \in 1..Len(unlockChunks) :
           i # j => unlockChunks[i].id # unlockChunks[j].id
    /\ \A i \in 1..Len(unlockChunks) :
           unlockChunks[i].previous_unbonded_stake_in_era
               = amountAt(unlockChunks, requestedBefore(unlockChunks, i))

\* canWithdraw(chunk) in the state after the step
eligibleNext(chunk) ==
    canWithdrawOn(chunk, eraData', currentEra', networkParams').canWithdraw

\* the chunks the step leaves as they are and that were eligible before it
\* are eligible after it
staysEligible ==
    \A c \in chunkSet \cap chunkSetAfter :
        c.status = "pending" /\ eligible(c) => eligibleNext(c)

(* C32  Eligibility is stable: once canWithdraw reports a pending chunk
   eligible it keeps doing so after any step of addUnbondingRequest, of
   rebondChunk on another chunk and of advanceEras, the stake inputs
   unchanged.  The scan of a chunk sums every era from its start era to the
   current era: a request made later raises those sums. *)
C32_Original ==
    [][addStep \/ rebondStep \/ advanceStep => staysEligible]_vars

(* C32, as the code has it: eligibility is kept by every step of rebondChunk
   on another chunk and of advanceEras, the stake inputs unchanged; a later
   request can take it away. *)
C32_StableWithoutRequests ==
    [][rebondStep \/ advanceStep => staysEligible]_vars

\* a chunk inside the window has been eligible for more than one era, the
\* chunk requested after it has been rebonded in full, and the era of that
\* request is in the window
C32_Witness ==
    /\ nextChunkId = 3
    /\ \E c \in chunkSet :
           /\ chunkSet = {c}
           /\ c.id = 1
           /\ inWindow(c) /\ eligible(c)
           /\ currentEra > c.unbonding_start_era + MIN_UNBONDING_ERAS

(* C33  Queue order across eras: if chunk X was created in an earlier era than
   chunk Y, both have met the minimum wait and canWithdraw(Y) reports
   eligible, then canWithdraw(X) reports eligible.  The scan of X covers the
   eras of the scan of Y and the older ones down to the start era of X, with
   the whole total of Y's start era: it is X that is refused first. *)
C33_Original ==
    \A x, y \in chunkSet :
        /\ x.unbonding_start_era < y.unbonding_start_era
        /\ waitOver(x) /\ waitOver(y)
        /\ eligible(y)
        => eligible(x)

(* C33, as the code has it: while X is inside the window the order is the
   other way round.  If X was created in an earlier era than Y, both have met
   the minimum wait, X is inside the window and canWithdraw(X) reports
   eligible, then canWithdraw(Y) reports eligible. *)
C33_LaterChunkFirst ==
    \A x, y \in chunkSet :
        /\ x.unbonding_start_era < y.unbonding_start_era
        /\ waitOver(x) /\ waitOver(y)
        /\ inWindow(x)
        /\ eligible(x)
        => eligible(y)

\* two chunks of consecutive eras, waits over, the older one inside the window
\* and eligible with the newer one's era in its sums
C33_Witness ==
    \E x, y \in chunkSet :
        /\ x.unbonding_start_era < y.unbonding_start_era
        /\ waitOver(y) /\ inWindow(x)
        /\ eligible(x) /\ eligible(y)
        /\ x.unbonding_amount = 60000000
        /\ sumWindow(x, x.unbonding_start_era)
               = x.unbonding_amount + y.unbonding_amount

\* chunk id is in the store, pending, and the eras of the session reach the end
\* of its window
releaseDue(id) ==
    \E c \in chunkSet :
        /\ c.id = id
        /\ c.status = "pending"
        /\ c.unbonding_start_era + BONDING_DURATION <= MaxEra

\* chunk id has been rebonded in full or canWithdraw reports it eligible
releasedOrGone(id) ==
    \A c \in chunkSet : c.id = id => eligible(c)

(* C34  Eventual release: while the era keeps being advanced, every pending
   chunk becomes eligible, at the latest at era start_era + BONDING_DURATION,
   whatever is requested or rebonded in the meantime, and from that era on it
   is eligible in every state. *)
C34_EventualRelease ==
    /\ [](\A c \in chunkSet :
              c.status = "pending"
              /\ currentEra >= c.unbonding_start_era + BONDING_DURATION
                  => eligible(c))
    /\ \A id \in 1..MaxChunkId : releaseDue(id) ~> releasedOrGone(id)

\* a chunk has reached era start_era + BONDING_DURATION and is eligible, while
\* a chunk requested after it, its wait over, is held back by a threshold
C34_Witness ==
    \E c, d \in chunkSet :
        /\ c.status = "pending"
        /\ currentEra = c.unbonding_start_era + BONDING_DURATION
        /\ eligible(c)
        /\ d.unbonding_start_era > c.unbonding_start_era
        /\ waitOver(d) /\ ~eligible(d)

(* C35  Uniform stake: in every reachable state all EraRecords of the window
   hold the same lowest_third_stake, ratio * total staked for the present
   stake inputs, so the threshold is the same for every era of the window. *)
C35_UniformStake ==
    \A era \in DOMAIN eraData :
        /\ eraData[era].lowest_third_stake
               = stakeProduct(lowestThirdRatio, totalStakedDOT)
        /\ \A other \in DOMAIN eraData : thresholdOf(era) = thresholdOf(other)

\* both stake inputs were changed and the era advanced by one: the era seeded
\* by advanceEras and the eras rewritten by the stake inputs hold 60_000_000
C35_Witness ==
    /\ lowestThirdRatio = 250
    /\ totalStakedDOT = 240000000
    /\ timeAdvanced = 1
    /\ currentEra = BONDING_DURATION
    /\ eraData[currentEra].lowest_third_stake = 60000000
    /\ eraData[currentEra - 1].lowest_third_stake = 60000000
---------------------------------------------------------------------------
(* Vocabulary of the claims about the sequential-queue simulator *)

\* positions of the request list
requestPositions == 1..Len(unbondingRequests)

\* the step appended a request
requestAdded ==
    /\ nextRequestId' = nextRequestId + 1
    /\ Len(unbondingRequests') = Len(unbondingRequests) + 1

\* the request the step appended
addedRequest == unbondingRequests'[Len(unbondingRequests')]

\* the simulated block: current_block + timeSimulation * BLOCKS_PER_DAY
simulatedBlock == queueState.current_block + timeSimulation * networkParams.BLOCKS_PER_DAY

\* the duration of the request a step adds is within the two bounds
durationWithinBounds ==
    requestAdded =>
        LET duration == addedRequest.unbonding_block - addedRequest.request_block
        IN  /\ duration >= networkParams.LOWER_BOUND_DAYS * networkParams.BLOCKS_PER_DAY
            /\ duration <= networkParams.UPPER_BOUND_DAYS * networkParams.BLOCKS_PER_DAY

\* a request is completed only when LOWER_BOUND_DAYS have been advanced since it
\* was added
notBeforeLowerBound ==
    \A i \in requestPositions :
        unbondingRequests[i].status = "completed"
            => elapsedSinceAdded[unbondingRequests[i].id] >= networkParams.LOWER_BOUND_DAYS

\* the first half of C36 alone, which the code satisfies
C36_DurationBounds == [][durationWithinBounds]_vars

\* C36: the duration unbonding_block - request_block of every request added is
\* between LOWER_BOUND_DAYS and UPPER_BOUND_DAYS in blocks, and no request is
\* marked completed before LOWER_BOUND_DAYS of simulated time have elapsed since
\* it was added.  The code does not satisfy the second half: a request added
\* after time was advanced is measured from current_block, which stays 0.
C36_Original == [][durationWithinBounds /\ notBeforeLowerBound']_vars

\* the step removed a request, which only rebondRequest does
requestRebonded == Len(unbondingRequests') = Len(unbondingRequests) - 1

\* the request the step removed
rebondedRequest ==
    unbondingRequests[CHOOSE i \in requestPositions :
                          \A j \in 1..Len(unbondingRequests') :
                              unbondingRequests'[j].id # unbondingRequests[i].id]

\* a rebond removes a pending request and takes exactly its time delta and its
\* amount out of the queue
rebondSubtractsExactly ==
    requestRebonded =>
        /\ rebondedRequest.status = "pending"
        /\ queueState'.back_of_queue_block =
               queueState.back_of_queue_block - rebondedRequest.unbonding_time_delta_blocks
        /\ queueState'.total_queue_stake =
               queueState.total_queue_stake - rebondedRequest.amount

\* rebonding the request a step has added would give back the queue of before
addIsUndone ==
    requestAdded =>
        /\ queueState'.back_of_queue_block - addedRequest.unbonding_time_delta_blocks
               = queueState.back_of_queue_block
        /\ queueState'.total_queue_stake - addedRequest.amount
               = queueState.total_queue_stake

RECURSIVE pendingAmountFrom(_, _)
\* the sum of the amounts of the pending requests from position i on
pendingAmountFrom(requests, i) ==
    IF i > Len(requests) THEN 0
    ELSE (IF requests[i].status = "pending" THEN requests[i].amount ELSE 0)
             + pendingAmountFrom(requests, i + 1)

\* total_queue_stake is the sum of the amounts of the pending requests
stakeIsPendingAmount ==
    queueState.total_queue_stake = pendingAmountFrom(unbondingRequests, 1)

\* the first two parts of C37 alone, which the code satisfies
C37_RebondUndoesAdd == [][rebondSubtractsExactly /\ addIsUndone]_vars

\* C37: rebonding a pending request subtracts exactly its
\* unbonding_time_delta_blocks from back_of_queue_block and its amount from
\* total_queue_stake and removes it, so that add followed by rebond restores
\* both, and total_queue_stake is always the sum of the amounts of the pending
\* requests.  The code does not satisfy the last part: a request that
\* advanceTime marks completed stays counted in total_queue_stake.
C37_Original ==
    [][rebondSubtractsExactly /\ addIsUndone /\ stakeIsPendingAmount']_vars

\* C38: once a request has status completed it never returns to pending,
\* whatever advanceTime, Reset Time, add and rebond steps follow.  The code does
\* not satisfy it: advanceTime restates every request from the new time, so
\* after Reset Time a completed request is pending again.
C38_Original ==
    [][\A i \in requestPositions :
          \A j \in 1..Len(unbondingRequests') :
              /\ unbondingRequests[i].id = unbondingRequests'[j].id
              /\ unbondingRequests[i].status = "completed"
              => unbondingRequests'[j].status = "completed"]_vars

\* C39: while pending_slashes is set the queue is frozen: no request is added
\* and no pending request changes to completed, however far time is advanced.
\* The code does not satisfy the second part: only the Add to Queue button
\* looks at pending_slashes, advanceTime does not.
C39_Original ==
    [][queueState.pending_slashes =>
          /\ ~requestAdded
          /\ \A i \in requestPositions :
                \A j \in 1..Len(unbondingRequests') :
                    /\ unbondingRequests[i].id = unbondingRequests'[j].id
                    /\ unbondingRequests[i].status = "pending"
                    => unbondingRequests'[j].status = "pending"]_vars

\* the first part of C39 alone, which the code satisfies
C39_NoRequestAdded == [][queueState.pending_slashes => ~requestAdded]_vars
====
